---- MODULE Spec2Model ----
(***************************************************************************)
(* Turn orchestration and tool-call extraction of the Gemini chat CLI      *)
(* (src/src/cli/chat/mod.rs, src/src/gemini_client.rs).                    *)
(*                                                                         *)
(* Text is a sequence of tokens.  A token is a record [t, k, v] of three   *)
(* strings: t is the lexical class as the regular expressions of the       *)
(* parser see it (a tag, a run of characters without '<', whitespace, a    *)
(* JSON punctuation), k a name carried by the token, v its characters.     *)
(***************************************************************************)
EXTENDS Integers, Sequences, FiniteSets, TLC

VARIABLES
    pc,                 \* position of the program in run / run_interactive / display_response
    env_key,            \* GEMINI_API_KEY is set in the environment
    provider,           \* the replies the provider gives in this session: "scripted" or "markup"
    gemini_client,      \* ChatContext.gemini_client is Some
    input,              \* ChatContext.input (Option<String>): <<>> is None, <<line>> is Some(line)
    in_loop,            \* control is inside run_interactive
    messages,           \* ConversationState.messages
    tool_calls,         \* display_response: tool_calls of the initial response
    tc_i,               \* display_response: position of the outer for loop
    follow_tool_calls,  \* display_response: follow_tool_calls of the follow-up response
    ftc_i,              \* display_response: position of the inner for loop
    sent,               \* the messages handed to GeminiClient::generate_content by the last query
    response,           \* the text the last query returned
    upstream,           \* kind of the provider's reply to the last query
    last_tool,          \* outcome of the last execute_tool_call
    out,                \* what the last step wrote to self.output
    ev,                 \* the last step taken
    result,             \* how run() ended
    nq,                 \* model queries made in the current turn
    nd,                 \* tools dispatched in the current turn
    n1,                 \* invocations the parser found in the initial response of the turn
    n2,                 \* invocations the parser found in the follow-up responses of the turn
    dlog,               \* the dispatches of the current turn, in order: [lvl, call]
    lines,              \* lines consumed from the user in the session
    emitted,            \* invocations the model has emitted in parsed responses of the session
    turn,               \* the current turn: "none", "active", "done" or "aborted"
    psrc,               \* parser check: the structure the input text is rendered from
    pin,                \* parser check: the input text
    pout,               \* parser check: the result of extract_tool_calls
    fsys,               \* tool check: the files and directories below the working directory
    tcall,              \* tool check: the tool call dispatched last
    tout,               \* tool check: its result and the handlers that ran for it
    ncalls              \* tool check: tool calls dispatched so far

vars == <<pc, env_key, provider, gemini_client, input, in_loop, messages, tool_calls, tc_i,
          follow_tool_calls, ftc_i, sent, response, upstream, last_tool, out, ev,
          result, nq, nd, n1, n2, dlog, lines, emitted, turn, psrc, pin, pout,
          fsys, tcall, tout, ncalls>>

orch_vars == <<pc, env_key, provider, gemini_client, input, in_loop, messages, tool_calls, tc_i,
               follow_tool_calls, ftc_i, sent, response, upstream, last_tool, out, ev,
               result, nq, nd, n1, n2, dlog, lines, emitted, turn>>

parse_vars == <<psrc, pin, pout>>

tool_vars == <<fsys, tcall, tout, ncalls>>

---------------------------------------------------------------------------
(* Bounds of the model *)

\* lines the user types in one session
MaxLines == 2
\* invocations the model emits, over one session, in responses that are parsed
MaxEmitted == 3
\* invocation sub-blocks of a generated <function_calls> block
MaxBlockInv == 2
\* 'Tool call: {...}' occurrences of a generated response of the inline form
MaxInline == 2
\* tool calls dispatched on the file system of the tool check
MaxToolCalls == 2
\* largest line number, in absolute value, a generated line-range read asks for
MaxLineArg == 4

---------------------------------------------------------------------------
(* Tokens and text *)

Tok(t, k, v) == [t |-> t, k |-> k, v |-> v]

Txt(s) == Tok("text", "", s)
Nl == Tok("ws", "", "\n")
FcOpen == Tok("<function_calls>", "", "")
FcClose == Tok("</function_calls>", "", "")
InvOpen(n) == Tok("<invoke name>", n, "")
InvClose == Tok("</invoke>", "", "")
ParOpen(k) == Tok("<parameter name>", k, "")
ParClose == Tok("</parameter>", "", "")
Bang == Tok("!", "", "!")
TcPrefix == Tok("Tool call: ", "", "Tool call: ")
JOpen == Tok("{", "", "{")
JClose == Tok("}", "", "}")
JStr(k, v) == Tok("json string member", k, v)
JKey(k) == Tok("json member key", k, "")

\* a token no character of which is '<'
NoLt(tok) ==
    tok.t \in {"text", "ws", "!", "/", "Tool call: ", "{", "}", "json string member",
               "json member key"}

RECURSIVE TrimStart(_)
TrimStart(s) ==
    IF s # <<>> /\ Head(s).t = "ws" THEN TrimStart(Tail(s)) ELSE s

RECURSIVE TrimEnd(_)
TrimEnd(s) ==
    IF s # <<>> /\ s[Len(s)].t = "ws" THEN TrimEnd(SubSeq(s, 1, Len(s) - 1)) ELSE s

\* str::trim
Trim(s) == TrimEnd(TrimStart(s))

\* position of the first occurrence of tok in s at or after p, 0 if none
RECURSIVE FindTok(_, _, _)
FindTok(s, p, tok) ==
    IF p > Len(s) THEN 0
    ELSE IF s[p] = tok THEN p
    ELSE FindTok(s, p + 1, tok)

\* position of the first tag of class t with a non-empty name ([^"]+) at or after p
RECURSIVE FindNamed(_, _, _)
FindNamed(s, p, t) ==
    IF p > Len(s) THEN 0
    ELSE IF s[p].t = t /\ s[p].k # "" THEN p
    ELSE FindNamed(s, p + 1, t)

\* position of the first token at or after p that holds a '<'
RECURSIVE FindLt(_, _)
FindLt(s, p) ==
    IF p > Len(s) THEN 0
    ELSE IF ~NoLt(s[p]) THEN p
    ELSE FindLt(s, p + 1)

\* the characters of a run of tokens
RECURSIVE Chars(_)
Chars(s) == IF s = <<>> THEN "" ELSE Head(s).v \o Chars(Tail(s))

IsPrefix(s, t) == Len(s) <= Len(t) /\ SubSeq(t, 1, Len(s)) = s

---------------------------------------------------------------------------
(* serde_json values as far as the program builds and reads them *)

\* the parameter names of the tool catalogue, in the order of a serde_json::Map
KeyOrder ==
    <<"command", "context_lines", "end_line", "file_text", "insert_line", "mode",
      "new_str", "old_str", "path", "pattern", "start_line">>

EmptyMap == [k \in {} |-> ""]

\* Map::insert: a later value of a key replaces the earlier one
MapInsert(map, k, v) == [x \in DOMAIN map \cup {k} |-> IF x = k THEN v ELSE map[x]]

RECURSIVE MapMembers(_, _)
MapMembers(map, i) ==
    IF i > Len(KeyOrder) THEN <<>>
    ELSE (IF KeyOrder[i] \in DOMAIN map
          THEN <<JStr(KeyOrder[i], map[KeyOrder[i]])>>
          ELSE <<>>) \o MapMembers(map, i + 1)

\* json!({"name": tool_name, "parameters": params_map}).to_string()
ToolCallJson(tool_name, params_map) ==
    <<JOpen, JStr("name", tool_name), JKey("parameters"), JOpen>>
        \o MapMembers(params_map, 1) \o <<JClose, JClose>>

\* position of the '}' closing the object that opens at p, 0 if the text is no object
RECURSIVE ObjEnd(_, _)
RECURSIVE MembersEnd(_, _)
ObjEnd(s, p) == IF p > Len(s) \/ s[p] # JOpen THEN 0 ELSE MembersEnd(s, p + 1)

MembersEnd(s, p) ==
    IF p > Len(s) THEN 0
    ELSE IF s[p] = JClose THEN p
    ELSE IF s[p].t = "json string member" THEN MembersEnd(s, p + 1)
    ELSE IF s[p].t = "json member key"
         THEN LET e == ObjEnd(s, p + 1) IN IF e = 0 THEN 0 ELSE MembersEnd(s, e + 1)
    ELSE 0

\* serde_json::from_str::<Value> succeeds
ValidJson(s) == s # <<>> /\ ObjEnd(s, 1) = Len(s)

NoMember == [is |-> "absent", at |-> 0]

\* value[key] of the object whose members start at q: the last member of that name
RECURSIVE MemberScan(_, _, _, _)
MemberScan(s, q, key, acc) ==
    IF q > Len(s) \/ s[q] = JClose THEN acc
    ELSE IF s[q].t = "json string member"
         THEN MemberScan(s, q + 1, key,
                         IF s[q].k = key THEN [is |-> "string", at |-> q] ELSE acc)
    ELSE MemberScan(s, ObjEnd(s, q + 1) + 1, key,
                    IF s[q].k = key THEN [is |-> "object", at |-> q + 1] ELSE acc)

\* the string members of the object whose members start at q, as a map
RECURSIVE StringMembers(_, _, _)
StringMembers(s, q, map) ==
    IF q > Len(s) \/ s[q] = JClose THEN map
    ELSE IF s[q].t = "json string member"
         THEN StringMembers(s, q + 1, MapInsert(map, s[q].k, s[q].v))
    ELSE StringMembers(s, ObjEnd(s, q + 1) + 1, map)

\* tool_call["name"].as_str().unwrap_or("")
CallName(call) ==
    LET m == MemberScan(call, 2, "name", NoMember)
    IN  IF m.is = "string" THEN call[m.at].v ELSE ""

\* tool_call["parameters"].as_object().unwrap_or(&Map::new()), its string values
CallParameters(call) ==
    LET m == MemberScan(call, 2, "parameters", NoMember)
    IN  IF m.is = "object" THEN StringMembers(call, m.at + 1, EmptyMap) ELSE EmptyMap

\* parameters.get(key).and_then(|v| v.as_str()).unwrap_or("")
ParamStr(parameters, key) == IF key \in DOMAIN parameters THEN parameters[key] ELSE ""

---------------------------------------------------------------------------
(* Response parser: ChatContext::extract_tool_calls *)

None == [some |-> FALSE, text |-> <<>>, calls |-> <<>>]
Some(text, calls) == [some |-> TRUE, text |-> text, calls |-> calls]

\* <parameter name="([^"]+)">([^<]*)</parameter> over the body of one invoke block
RECURSIVE ParamMatches(_, _, _)
ParamMatches(body, p, params_map) ==
    LET o == FindNamed(body, p, "<parameter name>")
        e == IF o = 0 THEN 0 ELSE FindLt(body, o + 1)
    IN  IF o = 0 THEN params_map
        ELSE IF e # 0 /\ body[e] = ParClose
             THEN ParamMatches(body, e + 1,
                      MapInsert(params_map, body[o].k, Chars(SubSeq(body, o + 1, e - 1))))
        ELSE ParamMatches(body, o + 1, params_map)

\* position of the last occurrence of tok in s at or after p, 0 if none
RECURSIVE FindLastTok(_, _, _)
FindLastTok(s, p, tok) ==
    IF Len(s) < p THEN 0
    ELSE IF s[Len(s)] = tok THEN Len(s)
    ELSE FindLastTok(SubSeq(s, 1, Len(s) - 1), p, tok)

\* a variant of InvokeMatches: the body of an invoke block is matched greedily
RECURSIVE InvokeMatches_greedy(_, _)
InvokeMatches_greedy(block, p) ==
    LET o == FindNamed(block, p, "<invoke name>")
        c == IF o = 0 THEN 0 ELSE FindLastTok(block, o + 1, InvClose)
    IN  IF c = 0 THEN <<>>
        ELSE <<ToolCallJson(block[o].k,
                            ParamMatches(SubSeq(block, o + 1, c - 1), 1, EmptyMap))>>
                 \o InvokeMatches_greedy(block, c + 1)

\* <invoke name="([^"]+)">([\s\S]*?)</invoke> over the captured block
RECURSIVE InvokeMatches(_, _)
InvokeMatches(block, p) ==
    LET o == FindNamed(block, p, "<invoke name>")
        c == IF o = 0 THEN 0 ELSE FindTok(block, o + 1, InvClose)
    IN  IF c = 0 THEN <<>>
        ELSE <<ToolCallJson(block[o].k,
                            ParamMatches(SubSeq(block, o + 1, c - 1), 1, EmptyMap))>>
                 \o InvokeMatches(block, c + 1)

extract_xml_tool_calls(resp) ==
    LET o == FindTok(resp, 1, FcOpen)
        c == IF o = 0 THEN 0 ELSE FindTok(resp, o + 1, FcClose)
    IN  IF c = 0 THEN None
        ELSE Some(Trim(SubSeq(resp, 1, o - 1)), InvokeMatches(SubSeq(resp, o + 1, c - 1), 1))

\* end of the match of  Tool call: (\{.*?\})  that starts at o, 0 if none starts there
JsonMatchEnd(resp, o) ==
    IF o + 1 > Len(resp) \/ resp[o] # TcPrefix \/ resp[o + 1] # JOpen THEN 0
    ELSE LET c == FindTok(resp, o + 2, JClose)
             n == FindTok(resp, o + 2, Nl)
         IN  IF c # 0 /\ (n = 0 \/ n > c) THEN c ELSE 0

\* the captures_iter loop of extract_json_tool_calls and the code after it
RECURSIVE JsonScan(_, _, _, _, _)
JsonScan(resp, p, last_end, text_parts, calls) ==
    IF p > Len(resp)
    THEN LET parts == IF last_end < Len(resp)
                      THEN text_parts \o SubSeq(resp, last_end + 1, Len(resp))
                      ELSE text_parts
         IN  IF calls # <<>> THEN Some(Trim(parts), calls) ELSE None
    ELSE LET c == JsonMatchEnd(resp, p)
         IN  IF c = 0 THEN JsonScan(resp, p + 1, last_end, text_parts, calls)
             ELSE JsonScan(resp, c + 1, c,
                      IF p - 1 > last_end
                      THEN text_parts \o SubSeq(resp, last_end + 1, p - 1)
                      ELSE text_parts,
                      IF ValidJson(SubSeq(resp, p + 1, c))
                      THEN Append(calls, SubSeq(resp, p + 1, c))
                      ELSE calls)

\* a variant of extract_json_tool_calls: the text is returned also when no call was found
extract_json_tool_calls_always(resp) ==
    LET found == JsonScan(resp, 1, 0, <<>>, <<>>)
    IN  IF found.some THEN found ELSE Some(Trim(resp), <<>>)

extract_json_tool_calls(resp) == JsonScan(resp, 1, 0, <<>>, <<>>)

\* a variant of extract_tool_calls: both forms are applied, the calls of the inline
\* form follow those of the block
extract_tool_calls_both(resp) ==
    LET xml_result == extract_xml_tool_calls(resp)
        json_result == extract_json_tool_calls(resp)
    IN  IF xml_result.some
        THEN Some(xml_result.text, xml_result.calls \o json_result.calls)
        ELSE json_result

extract_tool_calls(resp) ==
    LET xml_result == extract_xml_tool_calls(resp)
    IN  IF xml_result.some THEN xml_result ELSE extract_json_tool_calls(resp)

---------------------------------------------------------------------------
(* Model client: GeminiClient::generate_content *)

Ok(text) == [ok |-> TRUE, text |-> text]
Err(text) == [ok |-> FALSE, text |-> text]

\* the text both fallbacks of generate_content return
FallbackText ==
    <<FcOpen, Nl, InvOpen("execute_bash"), Nl, ParOpen("command"), Txt("ls -la"), ParClose,
      Nl, InvClose, Nl, FcClose, Nl, Nl,
      Txt("I need to examine the project files to explain this project.")>>

\* format_args: one <parameter> line per member of args, strings unquoted
RECURSIVE format_args_from(_, _)
format_args_from(args, i) ==
    IF i > Len(KeyOrder) THEN <<>>
    ELSE (IF KeyOrder[i] \in DOMAIN args
          THEN <<ParOpen(KeyOrder[i])>>
                   \o (IF args[KeyOrder[i]] = "" THEN <<>> ELSE <<Txt(args[KeyOrder[i]])>>)
                   \o <<ParClose, Nl>>
          ELSE <<>>) \o format_args_from(args, i + 1)

format_args(args) == format_args_from(args, 1)

\* one part of the first candidate: a functionCall, a text, or both
TextPart(text) == [function_call |-> FALSE, name |-> "", args |-> EmptyMap, text |-> text]
CallPart(name, args) == [function_call |-> TRUE, name |-> name, args |-> args, text |-> <<>>]

RenderPart(part) ==
    (IF part.function_call
     THEN <<FcOpen, Nl, InvOpen(part.name), Nl>> \o format_args(part.args)
              \o <<Nl, InvClose, Nl, FcClose>>
     ELSE <<>>) \o part.text

RECURSIVE RenderParts(_)
RenderParts(parts) ==
    IF parts = <<>> THEN <<>> ELSE RenderPart(Head(parts)) \o RenderParts(Tail(parts))

\* what the provider answers to one request
Reply(kind, parts) == [kind |-> kind, parts |-> parts]

generate_content(reply) ==
    CASE reply.kind = "send_error" -> Err(<<Txt("error sending request")>>)
      [] reply.kind = "status_error" -> Err(<<Txt("API request failed: "), Txt("403")>>)
      [] reply.kind = "body_error" -> Err(<<Txt("error decoding response body")>>)
      [] reply.kind = "malformed_function_call" -> Ok(FallbackText)
      [] reply.kind = "no_candidate" -> Ok(FallbackText)
      [] OTHER -> IF RenderParts(reply.parts) # <<>>
                  THEN Ok(RenderParts(reply.parts))
                  ELSE Ok(FallbackText)

\* ChatContext::get_gemini_response
get_gemini_response(client, reply) ==
    IF ~client THEN Err(<<Txt("Gemini client not initialized")>>)
    ELSE generate_content(reply)

\* the replies the provider gives in this model
PlainReply == Reply("parts", <<TextPart(<<Txt("Done.")>>)>>)
EmptyBlockReply ==
    Reply("parts", <<TextPart(<<Txt("Nothing to run."), Nl, FcOpen, Nl, FcClose>>)>>)
TwoCallReply ==
    Reply("parts",
          <<TextPart(<<Txt("Let me look."), Nl, FcOpen, Nl,
                       InvOpen("execute_bash"), Nl, ParOpen("command"), Txt("ls"), ParClose,
                       Nl, InvClose, Nl,
                       InvOpen("fs_write"), Nl, ParOpen("command"), Txt("create"), ParClose,
                       Nl, ParOpen("path"), Txt("b.txt"), ParClose, Nl, InvClose, Nl,
                       FcClose>>)>>)
Replies ==
    {PlainReply, EmptyBlockReply, TwoCallReply, Reply("malformed_function_call", <<>>),
     Reply("no_candidate", <<>>), Reply("send_error", <<>>)}

\* replies whose text holds no markup, or markup that is not well formed
BlankEndsReply == Reply("parts", <<TextPart(<<Nl, Txt("Done."), Nl>>)>>)
BracesReply ==
    Reply("parts", <<TextPart(<<Txt("The config is "), JOpen, JStr("debug", "on"), JClose>>)>>)
UnclosedReply ==
    Reply("parts",
          <<TextPart(<<Txt("Reading."), Nl, FcOpen, Nl, InvOpen("execute_bash"), Nl,
                       ParOpen("command"), Txt("ls"), ParClose, Nl, InvClose>>)>>)
BadInvokeReply ==
    Reply("parts",
          <<TextPart(<<Txt("Reading."), Nl, FcOpen, Nl, InvOpen("execute_bash"), Nl,
                       ParOpen("command"), Txt("ls"), ParClose, Nl, FcClose>>)>>)
BadJsonReply ==
    Reply("parts",
          <<TextPart(<<Txt("Running."), Nl, TcPrefix, JOpen, Txt("name: execute_bash"),
                       JClose>>)>>)
MarkupReplies ==
    {BlankEndsReply, BracesReply, UnclosedReply, BadInvokeReply, BadJsonReply,
     EmptyBlockReply, TwoCallReply, Reply("no_candidate", <<>>), Reply("send_error", <<>>)}

\* the invocations each reply makes the parser return
Invocations ==
    [reply \in Replies \cup MarkupReplies |->
        IF generate_content(reply).ok
        THEN Len(extract_tool_calls(generate_content(reply).text).calls)
        ELSE 0]

---------------------------------------------------------------------------
(* Tool dispatcher: ChatContext::execute_tool_call, the tools as the environment *)

\* execute_bash::execute_bash
execute_bash(command) ==
    IF Trim(command) = <<>> THEN {Err(<<Txt("Command cannot be empty")>>)}
    ELSE {Ok(<<Txt("a.txt"), Nl>>), Err(<<Txt("Failed to execute command: "), Txt("ENOENT")>>)}

\* a filesystem tool either succeeds or reports an error
FsOutcomes == {Ok(<<Txt("ok")>>), Err(<<Txt("Permission denied")>>)}

\* the outcomes execute_tool_call can have for one serialized invocation
execute_tool_call(tool_call) ==
    IF ~ValidJson(tool_call) THEN {Err(<<Txt("expected value")>>)}
    ELSE LET tool_name == CallName(tool_call)
             parameters == CallParameters(tool_call)
         IN  CASE tool_name = "execute_bash" ->
                    execute_bash(IF ParamStr(parameters, "command") = "" THEN <<>>
                                 ELSE <<Txt(ParamStr(parameters, "command"))>>)
               [] tool_name = "fs_read" ->
                    IF ParamStr(parameters, "mode") \in {"", "Line", "Directory", "Search"}
                       /\ ("mode" \in DOMAIN parameters => parameters["mode"] # "")
                    THEN FsOutcomes
                    ELSE {Err(<<Txt("Invalid fs_read mode: " \o ParamStr(parameters, "mode"))>>)}
               [] tool_name = "fs_write" ->
                    IF ParamStr(parameters, "command")
                           \in {"create", "str_replace", "append", "insert"}
                    THEN FsOutcomes
                    ELSE {Err(<<Txt("Invalid fs_write command: "
                                        \o ParamStr(parameters, "command"))>>)}
               [] OTHER -> {Err(<<Txt("Unknown tool: " \o tool_name)>>)}

---------------------------------------------------------------------------
(* The tools on a file system: serde_json values, paths, files and directories *)

\* a path is text: components separated by Slash; <<>> is the empty path
Slash == Tok("/", "", "/")
Dot == Txt(".")

\* serde_json::Value as far as the parameters of a tool call go
StrV(text) == [ty |-> "string", s |-> text, n |-> 0]
NumV(n) == [ty |-> "number", s |-> <<>>, n |-> n]

\* parameters.get(key).and_then(|v| v.as_str()).unwrap_or(default)
as_str_or(parameters, key, default) ==
    IF key \in DOMAIN parameters /\ parameters[key].ty = "string"
    THEN parameters[key].s ELSE default

\* a variant of as_i64_or: a string that holds a digit is read as that number
as_i64_or_parsing(parameters, key, default) ==
    IF key \in DOMAIN parameters /\ parameters[key].ty = "number"
    THEN parameters[key].n
    ELSE IF key \in DOMAIN parameters /\ parameters[key].ty = "string"
            /\ \E n \in 0..9 : parameters[key].s = <<Txt(ToString(n))>>
    THEN CHOOSE n \in 0..9 : parameters[key].s = <<Txt(ToString(n))>>
    ELSE default

\* parameters.get(key).and_then(|v| v.as_i64()).unwrap_or(default)
as_i64_or(parameters, key, default) ==
    IF key \in DOMAIN parameters /\ parameters[key].ty = "number"
    THEN parameters[key].n ELSE default

\* usize::MAX.  The integers of TLC are 32 bits wide, so this stands for 2^64 - 1: every
\* line count and line number of the model is far below it, and the code only adds to it
\* with saturation and compares with it
USIZE_MAX == 2147483647

\* i as usize, for an i32: a negative value wraps around
as_usize(i) == IF i < 0 THEN USIZE_MAX - (-i - 1) ELSE i

\* usize::saturating_add
saturating_add(a, b) == IF a >= USIZE_MAX - b THEN USIZE_MAX ELSE a + b

\* usize::saturating_sub
saturating_sub(a, b) == IF a <= b THEN 0 ELSE a - b

Max(a, b) == IF a >= b THEN a ELSE b
Min(a, b) == IF a <= b THEN a ELSE b

\* Option<&Path>
NoPath == [some |-> FALSE, path |-> <<>>]
SomePath(path) == [some |-> TRUE, path |-> path]

\* Path::parent: the path without its last component; the parent of a bare name is the
\* empty path, the empty path has no parent
parent(path) ==
    IF path = <<>> THEN NoPath
    ELSE IF Len(path) = 1 THEN SomePath(<<>>)
    ELSE SomePath(SubSeq(path, 1, Len(path) - 2))

\* Path::file_name().and_then(|n| n.to_str()).unwrap_or("")
file_name(path) ==
    IF path = <<>> \/ path[Len(path)] = Dot THEN "" ELSE path[Len(path)].v

\* a file system below the working directory: the files and directories by path
File(content) == [kind |-> "file", content |-> content]
Dir == [kind |-> "dir", content |-> <<>>]

\* the node a path names: "." is the working directory, the empty path names nothing
Resolve(path) == IF path = <<Dot>> THEN <<>> ELSE path
exists(fs, path) == path # <<>> /\ (path = <<Dot>> \/ path \in DOMAIN fs)
is_file(fs, path) == path \in DOMAIN fs /\ fs[path].kind = "file"
is_dir(fs, path) == path = <<Dot>> \/ (path \in DOMAIN fs /\ fs[path].kind = "dir")

\* the entries of a directory: the paths one component below it
Entries(fs, dir) ==
    {q \in DOMAIN fs : parent(q).some /\ parent(q).path = Resolve(dir)}

\* the proper ancestors of a path, and the path itself
Ancestors(path) == {SubSeq(path, 1, n) : n \in {m \in 1..Len(path) : m % 2 = 1}}

\* a variant of create_dir_all: it reports success and creates nothing
create_dir_all_noop(fs, path) == [ok |-> TRUE, fs |-> fs]

\* std::fs::create_dir_all: Ok without effect on the empty path, an error when a
\* component is a file, else every missing directory on the path is created
create_dir_all(fs, path) ==
    IF path = <<>> \/ path = <<Dot>> THEN [ok |-> TRUE, fs |-> fs]
    ELSE IF \E a \in Ancestors(path) : is_file(fs, a) THEN [ok |-> FALSE, fs |-> fs]
    ELSE [ok |-> TRUE,
          fs |-> [q \in DOMAIN fs \cup Ancestors(path) |->
                      IF q \in DOMAIN fs THEN fs[q] ELSE Dir]]

\* std::fs::write: the parent must be a directory and the path must not be one
write(fs, path, content) ==
    IF path = <<>> \/ is_dir(fs, path) \/ ~parent(path).some
           \/ (parent(path).path # <<>> /\ ~is_dir(fs, parent(path).path))
    THEN [ok |-> FALSE, fs |-> fs]
    ELSE [ok |-> TRUE,
          fs |-> [q \in DOMAIN fs \cup {path} |->
                      IF q = path THEN File(content) ELSE fs[q]]]

\* str::lines: the text between line ends, without a last empty line
RECURSIVE SplitLines(_, _, _)
SplitLines(content, cur, acc) ==
    IF content = <<>> THEN (IF cur = <<>> THEN acc ELSE Append(acc, cur))
    ELSE IF Head(content) = Nl THEN SplitLines(Tail(content), <<>>, Append(acc, cur))
    ELSE SplitLines(Tail(content), Append(cur, Head(content)), acc)

lines_of(content) == SplitLines(content, <<>>, <<>>)

\* [String]::join("\n")
RECURSIVE JoinLines(_)
JoinLines(ls) ==
    IF ls = <<>> THEN <<>>
    ELSE IF Len(ls) = 1 THEN ls[1]
    ELSE ls[1] \o <<Nl>> \o JoinLines(Tail(ls))

\* e.to_string().contains("not found"): the pieces of the messages of the tools that
\* hold these words
NotFoundPieces ==
    {"File not found: ", "' not found. Did you mean '", "Directory not found: ",
     "String not found in file: "}
contains_not_found(text) == \E i \in DOMAIN text : text[i].v \in NotFoundPieces

\* the outcome of a tool: its result, the file system it leaves, the handlers that ran
Outcome(res, fs, ran) == [res |-> res, fs |-> fs, ran |-> ran]

---------------------------------------------------------------------------
(* The filesystem-read tool: tools/fs_read.rs *)

\* the names of the model in the order of OsString::cmp
NameOrder ==
    <<"NOTES.TXT", "empty.txt", "gone", "lib.rs", "main", "main.rs", "notes.txt", "out",
      "src", "sub", "todo.txt", "x.txt">>

\* str::to_lowercase on the names of the model
to_lowercase(name) == IF name = "NOTES.TXT" THEN "notes.txt" ELSE name

\* a.contains(b) on the names of the model
name_contains(a, b) == a = b \/ b = "" \/ <<a, b>> \in {<<"main.rs", "main">>}

\* the entries of the parent directory that read_file_lines takes for the file meant
SimilarEntries(fs, path) ==
    IF ~parent(path).some \/ (parent(path).path # <<>> /\ ~is_dir(fs, parent(path).path))
           \/ parent(path).path = <<>>
    THEN {}
    ELSE {q \in Entries(fs, parent(path).path) :
             \/ to_lowercase(file_name(q)) = to_lowercase(file_name(path))
             \/ name_contains(file_name(q), file_name(path))
             \/ name_contains(file_name(path), file_name(q))}

\* read_file_lines: the results it can have (read_dir gives the entries in any order)
read_file_lines(fs, path, start_line, end_line) ==
    IF ~exists(fs, path)
    THEN IF SimilarEntries(fs, path) # {}
         THEN {Err(<<Txt("File '")>> \o path \o <<Txt("' not found. Did you mean '")>>
                       \o q \o <<Txt("'?")>>) : q \in SimilarEntries(fs, path)}
         ELSE {Err(<<Txt("File not found: ")>> \o path)}
    ELSE IF ~is_file(fs, path) THEN {Err(<<Txt("Not a file: ")>> \o path)}
    ELSE LET lines_ == lines_of(fs[path].content)
             line_count == Len(lines_)
             start == IF start_line < 0
                      THEN saturating_add(line_count, as_usize(start_line))
                      ELSE as_usize(start_line - 1)
             end0 == IF end_line < 0
                     THEN saturating_add(saturating_add(line_count, as_usize(end_line)), 1)
                     ELSE IF end_line = 0 THEN line_count
                     ELSE end_line
             end == Max(end0, start)
         IN  IF start >= line_count
             THEN {Err(<<Txt("Starting line "), Txt(ToString(start_line)),
                         Txt(" is outside of the allowed range (1 to "),
                         Txt(ToString(line_count)), Txt(")")>>)}
             ELSE {Ok(JoinLines(SubSeq(lines_, start + 1,
                                       Min(start + saturating_sub(end, start), line_count))))}

\* the lines of a listing for the entries of one kind, by name
RECURSIVE EntryLines(_, _, _, _)
EntryLines(fs, dir, kind, i) ==
    IF i > Len(NameOrder) THEN <<>>
    ELSE LET q == Resolve(dir) \o (IF Resolve(dir) = <<>> THEN <<>> ELSE <<Slash>>)
                      \o <<Txt(NameOrder[i])>>
         IN  (IF q \in DOMAIN fs /\ fs[q].kind = kind
              THEN IF kind = "dir"
                   THEN <<Txt("dir  "), Txt(NameOrder[i]), Slash, Nl>>
                   ELSE <<Txt("file "), Txt(NameOrder[i]), Nl>>
              ELSE <<>>) \o EntryLines(fs, dir, kind, i + 1)

\* list_directory: header, directories first, then files, each group by name (the
\* permissions, size and time columns of an entry are not part of the model)
list_directory(fs, path) ==
    IF ~exists(fs, path) THEN Err(<<Txt("Directory not found: ")>> \o path)
    ELSE IF ~is_dir(fs, path) THEN Err(<<Txt("Not a directory: ")>> \o path)
    ELSE Ok(<<Txt("Type Permissions     Size  Modified             Name"), Nl,
              Txt("---- ----------- -------- ------------------- ----------------"), Nl>>
                \o EntryLines(fs, path, "dir", 1) \o EntryLines(fs, path, "file", 1))

\* str::contains on text: pat occurs in text at position i / somewhere
OccursAt(text, i, pat) ==
    i + Len(pat) - 1 <= Len(text) /\ SubSeq(text, i, i + Len(pat) - 1) = pat
Occurs(text, pat) == \E i \in 1..(Len(text) + 1) : OccursAt(text, i, pat)

\* the context block of search_file for the match on line line_num (0-based)
RECURSIVE ContextLines(_, _, _, _)
ContextLines(lines_, i, end, line_num) ==
    IF i >= end THEN <<>>
    ELSE <<Txt(IF i = line_num THEN "-> " ELSE "  "), Txt(ToString(i + 1)), Txt(": ")>>
             \o lines_[i + 1] \o <<Nl>> \o ContextLines(lines_, i + 1, end, line_num)

\* the loop of search_file from line line_num on: [matches_found, result]
RECURSIVE SearchLines(_, _, _, _, _)
SearchLines(lines_, pattern, context, line_num, acc) ==
    IF line_num >= Len(lines_) THEN acc
    ELSE IF Occurs(lines_[line_num + 1], pattern)
         THEN SearchLines(lines_, pattern, context, line_num + 1,
                  [matches_found |-> acc.matches_found + 1,
                   result |-> acc.result
                       \o (IF acc.matches_found + 1 > 1 THEN <<Nl, Txt("--"), Nl>> ELSE <<>>)
                       \o ContextLines(lines_, saturating_sub(line_num, context),
                                       Min(line_num + context + 1, Len(lines_)), line_num)])
         ELSE SearchLines(lines_, pattern, context, line_num + 1, acc)

\* search_file (the search compares the text as it is: the model has no letter case)
search_file(fs, path, pattern, context) ==
    IF ~exists(fs, path) THEN Err(<<Txt("File not found: ")>> \o path)
    ELSE IF ~is_file(fs, path) THEN Err(<<Txt("Not a file: ")>> \o path)
    ELSE IF pattern = <<>> THEN Err(<<Txt("Search pattern cannot be empty")>>)
    ELSE LET found == SearchLines(lines_of(fs[path].content), pattern, context, 0,
                                  [matches_found |-> 0, result |-> <<>>])
         IN  IF found.matches_found = 0
             THEN Ok(<<Txt("Pattern '")>> \o pattern \o <<Txt("' not found in ")>> \o path)
             ELSE Ok(<<Txt("Found "), Txt(ToString(found.matches_found)),
                       Txt(" matches for pattern '")>> \o pattern \o <<Txt("' in ")>>
                         \o path \o <<Txt(":"), Nl, Nl>> \o found.result)

---------------------------------------------------------------------------
(* The filesystem-write tool: tools/fs_write.rs *)

\* str::replace on text: every occurrence of old, from the left, without overlap; an
\* empty old matches before every piece of the text and at its end
RECURSIVE replace(_, _, _)
replace(content, old, new) ==
    IF content = <<>> THEN (IF old = <<>> THEN new ELSE <<>>)
    ELSE IF old = <<>> THEN new \o <<Head(content)>> \o replace(Tail(content), old, new)
    ELSE IF OccursAt(content, 1, old)
         THEN new \o replace(SubSeq(content, Len(old) + 1, Len(content)), old, new)
    ELSE <<Head(content)>> \o replace(Tail(content), old, new)

create_file(fs, path, content) ==
    LET made == IF parent(path).some /\ ~exists(fs, parent(path).path)
                THEN create_dir_all(fs, parent(path).path)
                ELSE [ok |-> TRUE, fs |-> fs]
        written == write(made.fs, path, content)
    IN  IF ~made.ok
        THEN Outcome(Err(<<Txt("Failed to create directory ")>> \o parent(path).path),
                     fs, <<"create_file">>)
        ELSE IF ~written.ok
        THEN Outcome(Err(<<Txt("Failed to write to file ")>> \o path), made.fs,
                     <<"create_file">>)
        ELSE Outcome(Ok(<<Txt("File created successfully: ")>> \o path), written.fs,
                     <<"create_file">>)

\* a variant of replace_in_file: the file is written without the test content.contains
replace_in_file_unchecked(fs, path, old_str, new_str) ==
    IF ~exists(fs, path)
    THEN Outcome(Err(<<Txt("File not found: ")>> \o path), fs, <<"replace_in_file">>)
    ELSE IF ~is_file(fs, path)
    THEN Outcome(Err(<<Txt("Failed to read file ")>> \o path), fs, <<"replace_in_file">>)
    ELSE Outcome(Ok(<<Txt("String replaced successfully in ")>> \o path),
                 write(fs, path, replace(fs[path].content, old_str, new_str)).fs,
                 <<"replace_in_file">>)

replace_in_file(fs, path, old_str, new_str) ==
    IF ~exists(fs, path)
    THEN Outcome(Err(<<Txt("File not found: ")>> \o path), fs, <<"replace_in_file">>)
    ELSE IF ~is_file(fs, path)
    THEN Outcome(Err(<<Txt("Failed to read file ")>> \o path), fs, <<"replace_in_file">>)
    ELSE IF ~Occurs(fs[path].content, old_str)
    THEN Outcome(Err(<<Txt("String not found in file: ")>> \o old_str), fs,
                 <<"replace_in_file">>)
    ELSE Outcome(Ok(<<Txt("String replaced successfully in ")>> \o path),
                 write(fs, path, replace(fs[path].content, old_str, new_str)).fs,
                 <<"replace_in_file">>)

\* a variant of append_to_file: a line end is written after the content in every case
append_to_file_doubling(fs, path, content) ==
    IF ~exists(fs, path)
    THEN Outcome(Err(<<Txt("File not found: ")>> \o path), fs, <<"append_to_file">>)
    ELSE IF ~is_file(fs, path)
    THEN Outcome(Err(<<Txt("Failed to read file ")>> \o path), fs, <<"append_to_file">>)
    ELSE LET current_content == fs[path].content
             appended ==
                 current_content
                     \o (IF current_content # <<>>
                            /\ current_content[Len(current_content)] # Nl
                         THEN <<Nl>> ELSE <<>>)
                     \o content \o <<Nl>>
         IN  Outcome(Ok(<<Txt("Content appended successfully to ")>> \o path),
                     write(fs, path, appended).fs, <<"append_to_file">>)

append_to_file(fs, path, content) ==
    IF ~exists(fs, path)
    THEN Outcome(Err(<<Txt("File not found: ")>> \o path), fs, <<"append_to_file">>)
    ELSE IF ~is_file(fs, path)
    THEN Outcome(Err(<<Txt("Failed to read file ")>> \o path), fs, <<"append_to_file">>)
    ELSE LET current_content == fs[path].content
             appended ==
                 current_content
                     \o (IF current_content # <<>>
                            /\ current_content[Len(current_content)] # Nl
                         THEN <<Nl>> ELSE <<>>)
                     \o content
                     \o (IF content = <<>> \/ content[Len(content)] # Nl
                         THEN <<Nl>> ELSE <<>>)
         IN  Outcome(Ok(<<Txt("Content appended successfully to ")>> \o path),
                     write(fs, path, appended).fs, <<"append_to_file">>)

\* the loop of insert_in_file: each line, and content after line line_number
RECURSIVE InsertLines(_, _, _, _)
InsertLines(lines_, i, line_number, content) ==
    IF i >= Len(lines_) THEN <<>>
    ELSE <<lines_[i + 1]>> \o (IF i + 1 = line_number THEN <<content>> ELSE <<>>)
             \o InsertLines(lines_, i + 1, line_number, content)

insert_in_file(fs, path, line_number, content) ==
    IF ~exists(fs, path)
    THEN Outcome(Err(<<Txt("File not found: ")>> \o path), fs, <<"insert_in_file">>)
    ELSE IF ~is_file(fs, path)
    THEN Outcome(Err(<<Txt("Failed to read file ")>> \o path), fs, <<"insert_in_file">>)
    ELSE LET lines_ == lines_of(fs[path].content)
         IN  IF line_number > Len(lines_)
             THEN Outcome(Err(<<Txt("Line number "), Txt(ToString(line_number)),
                                Txt(" is out of range (file has "),
                                Txt(ToString(Len(lines_))), Txt(" lines)")>>),
                          fs, <<"insert_in_file">>)
             ELSE Outcome(Ok(<<Txt("Content inserted successfully at line "),
                               Txt(ToString(line_number)), Txt(" in ")>> \o path),
                          write(fs, path,
                                JoinLines(InsertLines(lines_, 0, line_number, content))).fs,
                          <<"insert_in_file">>)

---------------------------------------------------------------------------
(* The dispatcher on a file system: ChatContext::execute_tool_call *)

\* a tool call after serde_json::from_str: its name and its parameters
ToolCall(name, parameters) == [name |-> name, parameters |-> parameters]

\* the fs_read arm of execute_tool_call
dispatch_fs_read(fs, parameters) ==
    LET path == as_str_or(parameters, "path", <<>>)
        mode == as_str_or(parameters, "mode", <<Txt("Line")>>)
        created == create_dir_all(fs, path)
        results ==
            IF mode = <<Txt("Line")>>
            THEN {Outcome(r, fs, <<"read_file_lines">>) :
                     r \in read_file_lines(fs, path,
                                           as_i64_or(parameters, "start_line", 1),
                                           as_i64_or(parameters, "end_line", -1))}
            ELSE IF mode = <<Txt("Directory")>>
            THEN {Outcome(list_directory(fs, path), fs, <<"list_directory">>)}
            ELSE {Outcome(search_file(fs, path, as_str_or(parameters, "pattern", <<>>),
                                      as_usize(as_i64_or(parameters, "context_lines", 2))),
                          fs, <<"search_file">>)}
        dir_path == IF parent(path).some THEN parent(path).path ELSE <<Dot>>
        dir_listing == list_directory(fs, dir_path)
    IN  IF mode \notin {<<Txt("Line")>>, <<Txt("Directory")>>, <<Txt("Search")>>}
        THEN {Outcome(Err(<<Txt("Invalid fs_read mode: ")>> \o mode), fs, <<>>)}
        ELSE IF mode = <<Txt("Directory")>> /\ ~exists(fs, path) /\ created.ok
        THEN {Outcome(Ok(<<Txt("Directory created: ")>> \o path
                             \o <<Nl, Txt("The directory is empty.")>>),
                      created.fs, <<"create_dir_all">>)}
        ELSE {IF ~o.res.ok /\ contains_not_found(o.res.text) /\ dir_listing.ok
              THEN Outcome(Ok(<<Txt("Error: ")>> \o o.res.text
                                  \o <<Txt("."), Nl, Nl, Txt("Available files in directory:"),
                                       Nl>> \o dir_listing.text),
                           fs, Append(o.ran, "list_directory"))
              ELSE IF ~o.res.ok /\ contains_not_found(o.res.text)
              THEN Outcome(o.res, fs, Append(o.ran, "list_directory"))
              ELSE o : o \in results}

\* a variant of the fs_write arm: a command it does not know is taken as 'create'
dispatch_fs_write_lenient(fs, parameters) ==
    LET path == as_str_or(parameters, "path", <<>>)
        command == as_str_or(parameters, "command", <<>>)
    IN  IF command = <<Txt("str_replace")>>
        THEN replace_in_file(fs, path, as_str_or(parameters, "old_str", <<>>),
                             as_str_or(parameters, "new_str", <<>>))
        ELSE IF command = <<Txt("append")>>
        THEN append_to_file(fs, path, as_str_or(parameters, "new_str", <<>>))
        ELSE IF command = <<Txt("insert")>>
        THEN insert_in_file(fs, path, as_usize(as_i64_or(parameters, "insert_line", 0)),
                            as_str_or(parameters, "new_str", <<>>))
        ELSE create_file(fs, path, as_str_or(parameters, "file_text", <<>>))

\* the fs_write arm of execute_tool_call
dispatch_fs_write(fs, parameters) ==
    LET path == as_str_or(parameters, "path", <<>>)
        command == as_str_or(parameters, "command", <<>>)
    IN  IF command = <<Txt("create")>>
        THEN create_file(fs, path, as_str_or(parameters, "file_text", <<>>))
        ELSE IF command = <<Txt("str_replace")>>
        THEN replace_in_file(fs, path, as_str_or(parameters, "old_str", <<>>),
                             as_str_or(parameters, "new_str", <<>>))
        ELSE IF command = <<Txt("append")>>
        THEN append_to_file(fs, path, as_str_or(parameters, "new_str", <<>>))
        ELSE IF command = <<Txt("insert")>>
        THEN insert_in_file(fs, path, as_usize(as_i64_or(parameters, "insert_line", 0)),
                            as_str_or(parameters, "new_str", <<>>))
        ELSE Outcome(Err(<<Txt("Invalid fs_write command: ")>> \o command), fs, <<>>)

\* execute_tool_call on a parsed tool call: the outcomes it can have
execute_tool_call_fs(fs, tool_call) ==
    CASE tool_call.name = "execute_bash" ->
            {Outcome(r, fs, <<"execute_bash">>) :
                r \in execute_bash(as_str_or(tool_call.parameters, "command", <<>>))}
      [] tool_call.name = "fs_read" -> dispatch_fs_read(fs, tool_call.parameters)
      [] tool_call.name = "fs_write" -> {dispatch_fs_write(fs, tool_call.parameters)}
      [] OTHER -> {Outcome(Err(<<Txt("Unknown tool: " \o tool_call.name)>>), fs, <<>>)}

---------------------------------------------------------------------------
(* The dispatcher on generated tool calls *)

\* the paths of the model
NotesTxt == <<Txt("notes.txt")>>
EmptyTxt == <<Txt("empty.txt")>>
SrcDir == <<Txt("src")>>
SrcMainRs == <<Txt("src"), Slash, Txt("main.rs")>>
Paths ==
    {<<>>, <<Dot>>, NotesTxt, EmptyTxt, SrcDir, SrcMainRs,
     <<Txt("NOTES.TXT")>>, <<Txt("todo.txt")>>, <<Txt("out")>>,
     <<Txt("src"), Slash, Txt("main")>>, <<Txt("src"), Slash, Txt("lib.rs")>>,
     <<Txt("notes.txt"), Slash, Txt("sub")>>, <<Txt("gone"), Slash, Txt("x.txt")>>}

\* the files and directories the tool check starts from
InitialFs ==
    [q \in {NotesTxt, EmptyTxt, SrcDir, SrcMainRs} |->
        IF q = NotesTxt THEN File(<<Txt("alpha"), Nl, Txt("beta"), Nl, Txt("gamma"), Nl>>)
        ELSE IF q = EmptyTxt THEN File(<<>>)
        ELSE IF q = SrcDir THEN Dir
        ELSE File(<<Txt("fn main() {}"), Nl, Txt("// end")>>)]

\* a parameter that is not given
Absent == [ty |-> "absent", s |-> <<>>, n |-> 0]

\* the parameters given, as a serde_json::Map
RECURSIVE ParamsOf(_)
ParamsOf(pairs) ==
    IF pairs = <<>> THEN EmptyMap
    ELSE IF pairs[Len(pairs)][2] = Absent THEN ParamsOf(SubSeq(pairs, 1, Len(pairs) - 1))
    ELSE MapInsert(ParamsOf(SubSeq(pairs, 1, Len(pairs) - 1)),
                   pairs[Len(pairs)][1], pairs[Len(pairs)][2])

\* what a line-range read may give as start_line or end_line: nothing, a string (as the
\* structured-markup parser produces), or a number
LineArgs == {Absent, StrV(<<Txt("2")>>)} \cup {NumV(n) : n \in (0 - MaxLineArg)..MaxLineArg}

ReadCalls ==
    {ToolCall("fs_read", ParamsOf(<<<<"path", StrV(NotesTxt)>>,
                                    <<"start_line", a>>, <<"end_line", b>>>>)) :
        a \in LineArgs, b \in LineArgs}
    \cup
    {ToolCall("fs_read", ParamsOf(<<<<"path", path>>, <<"mode", mode>>>>)) :
        path \in {Absent, NumV(7)} \cup {StrV(q) : q \in Paths},
        mode \in {Absent, NumV(1), StrV(<<Txt("Line")>>), StrV(<<Txt("Directory")>>),
                  StrV(<<Txt("Lines")>>), StrV(<<>>)}}
    \cup
    {ToolCall("fs_read", ParamsOf(<<<<"path", path>>, <<"mode", StrV(<<Txt("Search")>>)>>,
                                    <<"pattern", pattern>>>>)) :
        path \in {Absent, NumV(7)} \cup {StrV(q) : q \in Paths},
        pattern \in {Absent, StrV(<<Txt("beta")>>)}}

\* the paths the write calls name: a file that ends in a line end, a file that does not,
\* an empty file, a missing file and a missing file in a missing directory
WritePaths ==
    {NotesTxt, SrcMainRs, EmptyTxt, <<Txt("todo.txt")>>, <<Txt("gone"), Slash, Txt("x.txt")>>}

\* a write call for a command, with the parameters the command reads
WriteCall(path, command, pairs) ==
    ToolCall("fs_write", ParamsOf(<<<<"path", StrV(path)>>, <<"command", command>>>> \o pairs))

WriteCalls ==
    {WriteCall(path, StrV(<<Txt("create")>>), <<<<"file_text", StrV(<<Txt("new"), Nl>>)>>>>) :
        path \in WritePaths}
    \cup
    {WriteCall(path, StrV(<<Txt("str_replace")>>),
               <<<<"old_str", old>>, <<"new_str", StrV(<<Txt("delta")>>)>>>>) :
        path \in WritePaths,
        old \in {Absent, NumV(7), StrV(<<Txt("beta")>>), StrV(<<Txt("omega")>>), StrV(<<Nl>>)}}
    \cup
    {WriteCall(path, StrV(<<Txt("append")>>), <<<<"new_str", new>>>>) :
        path \in WritePaths,
        new \in {Absent, StrV(<<Txt("delta")>>), StrV(<<Txt("delta"), Nl>>)}}
    \cup
    {WriteCall(path, StrV(<<Txt("insert")>>),
               <<<<"insert_line", line>>, <<"new_str", StrV(<<Txt("delta")>>)>>>>) :
        path \in WritePaths,
        line \in {Absent} \cup {NumV(n) : n \in 0..MaxLineArg}}
    \cup
    {WriteCall(path, command, <<>>) :
        path \in WritePaths, command \in {Absent, StrV(<<Txt("delete")>>)}}

OtherCalls ==
    {ToolCall(name, ParamsOf(<<<<"command", command>>>>)) :
        name \in {"execute_bash", "use_aws", "fs_delete", ""},
        command \in {Absent, StrV(<<Txt("ls")>>)}}

ToolCalls == ReadCalls \cup WriteCalls \cup OtherCalls

NoCall == ToolCall("", EmptyMap)
NoOutcome == [res |-> Ok(<<>>), ran |-> <<>>]

\* no tool call has been dispatched on the file system
ToolsIdle ==
    /\ fsys = InitialFs
    /\ tcall = NoCall
    /\ tout = NoOutcome
    /\ ncalls = 0

\* display_response hands one parsed tool call to execute_tool_call
DispatchTool ==
    /\ ncalls < MaxToolCalls
    /\ \E call \in ToolCalls :
          \E o \in execute_tool_call_fs(fsys, call) :
              /\ tcall' = call
              /\ tout' = [res |-> o.res, ran |-> o.ran]
              /\ fsys' = o.fs
    /\ ncalls' = ncalls + 1
    /\ UNCHANGED <<orch_vars, parse_vars>>

---------------------------------------------------------------------------
(* Conversation history: ConversationState *)

add_user_message(msgs, message) == Append(msgs, [role |-> "user", text |-> message])

\* a variant of add_assistant_message: the entry replaces the last one
add_assistant_message_overwriting(msgs, message) ==
    IF msgs = <<>> THEN <<[role |-> "assistant", text |-> message]>>
    ELSE [msgs EXCEPT ![Len(msgs)] = [role |-> "assistant", text |-> message]]

add_assistant_message(msgs, message) == Append(msgs, [role |-> "assistant", text |-> message])

---------------------------------------------------------------------------
(* The session: ChatContext::run, run_interactive, handle_input, display_response *)

HelpLine == <<Txt("/help")>>
ClearLine == <<Txt("/clear")>>
QuitLine == <<Txt("/quit")>>
ShellLine == <<Bang, Txt("ls")>>
ChatLine == <<Txt("list the files")>>
BlankLine == <<Nl>>

\* what the user may type, or pass as the one-shot input
UserLines == {HelpLine, ClearLine, QuitLine, ShellLine, ChatLine, BlankLine}

NoTool == Ok(<<>>)
NoResponse == Ok(<<>>)
Running == [status |-> "running", error |-> <<>>]

\* ChatContext::new, and the environment main runs in
OrchStart(key, one_shot) ==
    /\ pc = "run"
    /\ env_key = key
    /\ gemini_client = FALSE
    /\ input = one_shot
    /\ in_loop = FALSE
    /\ messages = <<>>
    /\ tool_calls = <<>>
    /\ tc_i = 0
    /\ follow_tool_calls = <<>>
    /\ ftc_i = 0
    /\ sent = <<>>
    /\ response = NoResponse
    /\ upstream = "none"
    /\ last_tool = NoTool
    /\ out = <<>>
    /\ ev = "init"
    /\ result = Running
    /\ nq = 0
    /\ nd = 0
    /\ n1 = 0
    /\ n2 = 0
    /\ dlog = <<>>
    /\ lines = 0
    /\ emitted = 0
    /\ turn = "none"

\* the locals of display_response are gone once it returns
LocalsDropped ==
    /\ tool_calls' = <<>>
    /\ tc_i' = 0
    /\ follow_tool_calls' = <<>>
    /\ ftc_i' = 0

\* handle_input returned Ok(()) to run (one-shot) or to run_interactive
Returned ==
    IF in_loop
    THEN pc' = "readline" /\ result' = result
    ELSE pc' = "exit" /\ result' = [status |-> "success", error |-> <<>>]

\* handle_input returned Err(e): run_interactive prints it and reads on, run propagates it
Failed(e) ==
    IF in_loop
    THEN pc' = "readline" /\ result' = result /\ out' = <<<<Txt("Error: ")>> \o e>>
    ELSE pc' = "exit" /\ result' = [status |-> "error", error |-> e] /\ out' = <<>>

\* what a finished call of handle_input leaves behind is gone when the next one starts
TurnForgotten ==
    /\ sent' = <<>>
    /\ response' = NoResponse
    /\ upstream' = "none"
    /\ nq' = 0 /\ nd' = 0 /\ n1' = 0 /\ n2' = 0
    /\ dlog' = <<>>
    /\ UNCHANGED <<tool_calls, tc_i, follow_tool_calls, ftc_i, emitted>>

\* process_chat_input up to its first await
process_chat_input(line) ==
    /\ messages' = add_user_message(messages, line)
    /\ pc' = "initial"
    /\ turn' = "active"
    /\ out' = <<>>
    /\ ev' = "chat"
    /\ last_tool' = NoTool
    /\ UNCHANGED result

\* a variant of handle_input: the shell escape is recorded in the history
handle_input_recording(line) ==
    /\ lines' = lines + 1
    /\ TurnForgotten
    /\ IF Trim(line) = HelpLine
       THEN /\ out' = <<<<Txt("Gemini Chat CLI")>>>>
            /\ ev' = "help"
            /\ turn' = "none"
            /\ last_tool' = NoTool
            /\ Returned
            /\ UNCHANGED messages
       ELSE IF Trim(line) = ClearLine
       THEN /\ messages' = <<>>
            /\ out' = <<<<Txt("Conversation cleared.")>>>>
            /\ ev' = "clear"
            /\ turn' = "none"
            /\ last_tool' = NoTool
            /\ Returned
       ELSE IF line # <<>> /\ Head(line) = Bang
       THEN /\ \E r \in execute_bash(Tail(line)) :
                 /\ last_tool' = r
                 /\ IF r.ok THEN out' = <<r.text>> /\ Returned ELSE Failed(r.text)
            /\ ev' = "shell"
            /\ turn' = "none"
            /\ messages' = add_user_message(messages, line)
       ELSE process_chat_input(line)

\* ChatContext::handle_input
handle_input(line) ==
    /\ lines' = lines + 1
    /\ TurnForgotten
    /\ IF Trim(line) = HelpLine
       THEN /\ out' = <<<<Txt("Gemini Chat CLI")>>>>
            /\ ev' = "help"
            /\ turn' = "none"
            /\ last_tool' = NoTool
            /\ Returned
            /\ UNCHANGED messages
       ELSE IF Trim(line) = ClearLine
       THEN /\ messages' = <<>>
            /\ out' = <<<<Txt("Conversation cleared.")>>>>
            /\ ev' = "clear"
            /\ turn' = "none"
            /\ last_tool' = NoTool
            /\ Returned
       ELSE IF line # <<>> /\ Head(line) = Bang
       THEN /\ \E r \in execute_bash(Tail(line)) :
                 /\ last_tool' = r
                 /\ IF r.ok THEN out' = <<r.text>> /\ Returned ELSE Failed(r.text)
            /\ ev' = "shell"
            /\ turn' = "none"
            /\ UNCHANGED messages
       ELSE process_chat_input(line)

\* a variant of Run: a failed GeminiClient::new does not end the program
Run_unchecked ==
    /\ pc = "run"
    /\ gemini_client' = env_key
    /\ IF input # <<>>
       THEN /\ input' = <<>>
            /\ in_loop' = FALSE
            /\ handle_input(input[1])
       ELSE /\ in_loop' = TRUE
            /\ pc' = "readline"
            /\ out' = <<<<Txt("Hi, I'm Gemini Chat. Ask me anything.")>>>>
            /\ ev' = "run"
            /\ UNCHANGED <<input, result, messages, tool_calls, tc_i,
                           follow_tool_calls, ftc_i, sent, response, upstream,
                           last_tool, nq, nd, n1, n2, dlog, lines, emitted, turn>>
    /\ UNCHANGED <<provider, env_key, parse_vars, tool_vars>>

\* ChatContext::run
Run ==
    /\ pc = "run"
    /\ IF ~env_key
       THEN /\ gemini_client' = FALSE
            /\ out' = <<<<Txt("Failed to initialize Gemini client: "),
                         Txt("GEMINI_API_KEY environment variable not set")>>>>
            /\ pc' = "exit"
            /\ result' = [status |-> "failure", error |-> <<>>]
            /\ ev' = "run"
            /\ UNCHANGED <<input, in_loop, messages, tool_calls, tc_i, follow_tool_calls,
                           ftc_i, sent, response, upstream, last_tool, nq, nd, n1, n2,
                           dlog, lines, emitted, turn>>
       ELSE /\ gemini_client' = TRUE
            /\ IF input # <<>>
               THEN /\ input' = <<>>
                    /\ in_loop' = FALSE
                    /\ handle_input(input[1])
               ELSE /\ in_loop' = TRUE
                    /\ pc' = "readline"
                    /\ out' = <<<<Txt("Hi, I'm Gemini Chat. Ask me anything.")>>>>
                    /\ ev' = "run"
                    /\ UNCHANGED <<input, result, messages, tool_calls, tc_i,
                                   follow_tool_calls, ftc_i, sent, response, upstream,
                                   last_tool, nq, nd, n1, n2, dlog, lines, emitted, turn>>
    /\ UNCHANGED <<provider, env_key, parse_vars, tool_vars>>

\* one pass of the loop of run_interactive: readline returns a line, or fails
ReadLine ==
    /\ pc = "readline"
    /\ \/ \E line \in (IF lines < MaxLines THEN UserLines ELSE {QuitLine, BlankLine}) :
            IF Trim(line) = <<>>
            THEN /\ out' = <<>>
                 /\ ev' = "blank"
                 /\ UNCHANGED <<pc, result, messages, tool_calls, tc_i, follow_tool_calls,
                                ftc_i, sent, response, upstream, last_tool, nq, nd, n1,
                                n2, dlog, lines, emitted, turn>>
            ELSE IF Trim(line) = QuitLine
            THEN /\ pc' = "exit"
                 /\ result' = [status |-> "success", error |-> <<>>]
                 /\ out' = <<>>
                 /\ ev' = "quit"
                 /\ UNCHANGED <<messages, tool_calls, tc_i, follow_tool_calls, ftc_i, sent,
                                response, upstream, last_tool, nq, nd, n1, n2, dlog, lines,
                                emitted, turn>>
            ELSE handle_input(line)
       \/ /\ pc' = "exit"
          /\ result' = [status |-> "success", error |-> <<>>]
          /\ out' = <<<<Txt("Error: "), Txt("EOF")>>>>
          /\ ev' = "eof"
          /\ UNCHANGED <<messages, tool_calls, tc_i, follow_tool_calls, ftc_i, sent,
                         response, upstream, last_tool, nq, nd, n1, n2, dlog, lines,
                         emitted, turn>>
    /\ UNCHANGED <<provider, env_key, gemini_client, input, in_loop, parse_vars, tool_vars>>

\* display_response returned Ok(()) and so did process_chat_input and handle_input
EndTurn ==
    /\ turn' = "done"
    /\ LocalsDropped
    /\ Returned

\* a variant of AbortTurn: the error is swallowed and the turn ends as if it had succeeded
AbortTurn_swallowed(e) ==
    /\ out' = <<>>
    /\ EndTurn

\* an error leaves display_response or process_chat_input through `?`
AbortTurn(e) ==
    /\ turn' = "aborted"
    /\ LocalsDropped
    /\ Failed(e)

\* the outer for loop of display_response moves on to its next tool call, if any
NextToolCall ==
    IF tc_i < Len(tool_calls)
    THEN /\ pc' = "for1"
         /\ tc_i' = tc_i + 1
         /\ follow_tool_calls' = <<>>
         /\ ftc_i' = 0
         /\ UNCHANGED <<tool_calls, turn, result>>
    ELSE EndTurn

\* a variant of NextFollowToolCall: the inner loop never advances
NextFollowToolCall_stuck ==
    /\ pc' = "for2"
    /\ UNCHANGED <<tool_calls, tc_i, follow_tool_calls, ftc_i, turn, result>>

\* the inner for loop of display_response moves on to its next nested tool call, if any
NextFollowToolCall ==
    IF ftc_i < Len(follow_tool_calls)
    THEN /\ pc' = "for2"
         /\ ftc_i' = ftc_i + 1
         /\ UNCHANGED <<tool_calls, tc_i, follow_tool_calls, turn, result>>
    ELSE NextToolCall

\* a variant of ToolEntries: the result is recorded before the call
ToolEntries_swapped(msgs, tool_call, text) ==
    add_assistant_message(add_user_message(msgs, <<Txt("Tool result: ")>> \o text),
                          <<TcPrefix>> \o tool_call)

\* the two history entries of one dispatched tool call
ToolEntries(msgs, tool_call, text) ==
    add_user_message(add_assistant_message(msgs, <<TcPrefix>> \o tool_call),
                     <<Txt("Tool result: ")>> \o text)

\* the replies the provider gives in this session
ProviderReplies == IF provider = "scripted" THEN Replies ELSE MarkupReplies

\* the replies the provider may give to a query whose response will be parsed
ParsedReplies == {r \in ProviderReplies : emitted + Invocations[r] <= MaxEmitted}

\* process_chat_input: the initial query returns; display_response runs up to its first await
InitialReply ==
    /\ pc = "initial"
    /\ \E reply \in ParsedReplies :
          LET r == get_gemini_response(gemini_client, reply)
              parsed == extract_tool_calls(r.text)
          IN  /\ response' = r
              /\ upstream' = reply.kind
              /\ sent' = IF gemini_client THEN messages ELSE sent
              /\ nq' = IF gemini_client THEN nq + 1 ELSE nq
              /\ IF ~r.ok
                 THEN /\ AbortTurn(r.text)
                      /\ UNCHANGED <<messages, n1, emitted>>
                 ELSE IF ~parsed.some
                 THEN /\ out' = <<r.text>>
                      /\ messages' = add_assistant_message(messages, r.text)
                      /\ EndTurn
                      /\ UNCHANGED <<n1, emitted>>
                 ELSE /\ out' = IF parsed.text # <<>> THEN <<parsed.text>> ELSE <<>>
                      /\ n1' = Len(parsed.calls)
                      /\ emitted' = emitted + Len(parsed.calls)
                      /\ UNCHANGED messages
                      /\ IF parsed.calls = <<>>
                         THEN EndTurn
                         ELSE /\ pc' = "for1"
                              /\ tool_calls' = parsed.calls
                              /\ tc_i' = 1
                              /\ UNCHANGED <<follow_tool_calls, ftc_i, turn, result>>
    /\ ev' = "initial_reply"
    /\ UNCHANGED <<provider, env_key, gemini_client, input, in_loop, last_tool, nd, n2, dlog, lines,
                   parse_vars, tool_vars>>

\* display_response, outer loop: execute one tool call, record it, ask the model again
Dispatch1 ==
    /\ pc = "for1"
    /\ \E r \in execute_tool_call(tool_calls[tc_i]) :
          LET error_msg == <<Txt("Error executing tool call: ")>> \o r.text
              text == IF r.ok THEN r.text ELSE error_msg
          IN  /\ last_tool' = r
              /\ out' = IF r.ok THEN <<>> ELSE <<error_msg>>
              /\ messages' = ToolEntries(messages, tool_calls[tc_i], text)
    /\ nd' = nd + 1
    /\ dlog' = Append(dlog, [lvl |-> 1, call |-> tool_calls[tc_i]])
    /\ pc' = "followup"
    /\ ev' = "dispatch1"
    /\ UNCHANGED <<provider, env_key, gemini_client, input, in_loop, tool_calls, tc_i,
                   follow_tool_calls, ftc_i, sent, response, upstream, result, nq, n1, n2,
                   lines, emitted, turn, parse_vars, tool_vars>>

\* display_response, outer loop: the follow-up query returns and its response is parsed
FollowUpReply ==
    /\ pc = "followup"
    /\ \E reply \in ParsedReplies :
          LET r == get_gemini_response(gemini_client, reply)
              parsed == extract_tool_calls(r.text)
          IN  /\ response' = r
              /\ upstream' = reply.kind
              /\ sent' = IF gemini_client THEN messages ELSE sent
              /\ nq' = IF gemini_client THEN nq + 1 ELSE nq
              /\ IF ~r.ok
                 THEN /\ AbortTurn(r.text)
                      /\ UNCHANGED <<messages, n2, emitted>>
                 ELSE IF ~parsed.some
                 THEN /\ out' = <<r.text>>
                      /\ messages' = add_assistant_message(messages, r.text)
                      /\ NextToolCall
                      /\ UNCHANGED <<n2, emitted>>
                 ELSE /\ out' = IF parsed.text # <<>> THEN <<parsed.text>> ELSE <<>>
                      /\ n2' = n2 + Len(parsed.calls)
                      /\ emitted' = emitted + Len(parsed.calls)
                      /\ UNCHANGED messages
                      /\ IF parsed.calls = <<>>
                         THEN NextToolCall
                         ELSE /\ pc' = "for2"
                              /\ follow_tool_calls' = parsed.calls
                              /\ ftc_i' = 1
                              /\ UNCHANGED <<tool_calls, tc_i, turn, result>>
    /\ ev' = "followup_reply"
    /\ UNCHANGED <<provider, env_key, gemini_client, input, in_loop, last_tool, nd, n1, dlog, lines,
                   parse_vars, tool_vars>>

\* display_response, inner loop: execute one nested tool call; its error leaves through `?`
Dispatch2 ==
    /\ pc = "for2"
    /\ \E r \in execute_tool_call(follow_tool_calls[ftc_i]) :
          /\ last_tool' = r
          /\ IF r.ok
             THEN /\ messages' = ToolEntries(messages, follow_tool_calls[ftc_i], r.text)
                  /\ pc' = "final"
                  /\ out' = <<>>
                  /\ UNCHANGED <<tool_calls, tc_i, follow_tool_calls, ftc_i, turn, result>>
             ELSE /\ AbortTurn(r.text)
                  /\ UNCHANGED messages
    /\ nd' = nd + 1
    /\ dlog' = Append(dlog, [lvl |-> 2, call |-> follow_tool_calls[ftc_i]])
    /\ ev' = "dispatch2"
    /\ UNCHANGED <<provider, env_key, gemini_client, input, in_loop, sent, response, upstream, nq,
                   n1, n2, lines, emitted, parse_vars, tool_vars>>

\* a variant of FinalResponse: the final response is parsed like a follow-up, its leading
\* text is recorded and its invocations join the nested tool calls
FinalResponse_parsed(final_response) ==
    LET parsed == extract_tool_calls(final_response)
    IN  IF ~parsed.some
        THEN /\ out' = <<final_response>>
             /\ messages' = add_assistant_message(messages, final_response)
             /\ NextFollowToolCall
             /\ UNCHANGED <<n2, emitted>>
        ELSE /\ out' = <<parsed.text>>
             /\ messages' = add_assistant_message(messages, parsed.text)
             /\ pc' = "for2"
             /\ follow_tool_calls' = follow_tool_calls \o parsed.calls
             /\ ftc_i' = ftc_i + 1
             /\ n2' = n2 + Len(parsed.calls)
             /\ UNCHANGED <<tool_calls, tc_i, turn, result, emitted>>

\* display_response, inner loop: what is done with the final response
FinalResponse(final_response) ==
    /\ out' = <<final_response>>
    /\ messages' = add_assistant_message(messages, final_response)
    /\ NextFollowToolCall
    /\ UNCHANGED <<n2, emitted>>

\* display_response, inner loop: the query after a nested tool call returns
FinalReply ==
    /\ pc = "final"
    /\ \E reply \in ProviderReplies :
          LET r == get_gemini_response(gemini_client, reply)
          IN  /\ response' = r
              /\ upstream' = reply.kind
              /\ sent' = IF gemini_client THEN messages ELSE sent
              /\ nq' = IF gemini_client THEN nq + 1 ELSE nq
              /\ IF ~r.ok
                 THEN /\ AbortTurn(r.text)
                      /\ UNCHANGED <<messages, n2, emitted>>
                 ELSE FinalResponse(r.text)
    /\ ev' = "final_reply"
    /\ UNCHANGED <<provider, env_key, gemini_client, input, in_loop, last_tool, nd, n1, dlog, lines,
                   parse_vars, tool_vars>>

---------------------------------------------------------------------------
(* Specifications *)

NoSource == [lead |-> <<>>, invs |-> <<>>, trail |-> <<>>]
NotParsed == [done |-> FALSE, res |-> None]

Init ==
    /\ \E key \in BOOLEAN, one_shot \in {<<>>, <<ChatLine>>, <<ClearLine>>, <<ShellLine>>} :
          OrchStart(key, one_shot)
    /\ provider = "scripted"
    /\ psrc = NoSource
    /\ pin = <<>>
    /\ pout = NotParsed
    /\ ToolsIdle

Next ==
    \/ Run
    \/ ReadLine
    \/ InitialReply
    \/ Dispatch1
    \/ FollowUpReply
    \/ Dispatch2
    \/ FinalReply

Spec == Init /\ [][Next]_vars

\* a session in which the provider answers with text that holds no markup or markup that
\* is not well formed, next to replies that carry invocations and keep the turn going
MarkupInit ==
    /\ \E one_shot \in {<<>>, <<ChatLine>>} : OrchStart(TRUE, one_shot)
    /\ provider = "markup"
    /\ psrc = NoSource
    /\ pin = <<>>
    /\ pout = NotParsed
    /\ ToolsIdle

MarkupSpec == MarkupInit /\ [][Next]_vars

---------------------------------------------------------------------------
(* The parser on generated responses *)

\* a parameter of an invocation sub-block: a name and a value without '<'
Param(k, v) == [k |-> k, v |-> v]
ParamValues == {<<>>, <<Txt("src"), Nl, Txt("lib")>>}
ParamLists ==
    {<<>>}
        \cup {<<Param(k, v)>> : k \in {"command", "path"}, v \in ParamValues}
        \cup {<<Param("command", v), Param("path", w)>> : v \in ParamValues, w \in ParamValues}
        \cup {<<Param("path", v), Param("command", w)>> : v \in ParamValues, w \in ParamValues}

\* an invocation sub-block
Invocation(name, params) == [name |-> name, params |-> params]
InvocationBlocks == {Invocation(n, ps) : n \in {"execute_bash", "fs_read"}, ps \in ParamLists}

RECURSIVE SeqsUpTo(_, _)
SeqsUpTo(S, n) ==
    IF n = 0 THEN {<<>>}
    ELSE SeqsUpTo(S, n - 1) \cup {Append(q, x) : q \in {r \in SeqsUpTo(S, n - 1) : Len(r) = n - 1}, x \in S}

\* responses holding one well-formed <function_calls> block
Sources ==
    {[lead |-> l, invs |-> is, trail |-> t] :
        l \in {<<>>, <<Txt("Let me look."), Nl>>},
        is \in SeqsUpTo(InvocationBlocks, MaxBlockInv),
        t \in {<<>>, <<Nl, Nl, Txt("I will read the files.")>>}}

RECURSIVE RenderParams(_)
RenderParams(params) ==
    IF params = <<>> THEN <<>>
    ELSE <<ParOpen(Head(params).k)>> \o Head(params).v \o <<ParClose, Nl>>
             \o RenderParams(Tail(params))

RECURSIVE RenderInvocations(_)
RenderInvocations(invs) ==
    IF invs = <<>> THEN <<>>
    ELSE <<InvOpen(Head(invs).name), Nl>> \o RenderParams(Head(invs).params)
             \o <<InvClose, Nl>> \o RenderInvocations(Tail(invs))

\* the response text of a source, in the layout generate_content gives a function call
RenderSource(src) ==
    src.lead \o <<FcOpen, Nl>> \o RenderInvocations(src.invs) \o <<FcClose>> \o src.trail

ParseInit ==
    /\ OrchStart(TRUE, <<>>)
    /\ provider = "scripted"
    /\ psrc \in Sources
    /\ pin = RenderSource(psrc)
    /\ pout = NotParsed
    /\ ToolsIdle

\* display_response hands the response to extract_tool_calls
Parse ==
    /\ ~pout.done
    /\ pout' = [done |-> TRUE, res |-> extract_tool_calls(pin)]
    /\ UNCHANGED <<psrc, pin, orch_vars, tool_vars>>

ParseNext == Parse

ParseSpec == ParseInit /\ [][ParseNext]_vars

---------------------------------------------------------------------------
(* The parser on generated responses of the inline form *)

\* JSON objects a response may hold after the prefix 'Tool call: '
InlineObjects ==
    {<<JOpen, JClose>>,
     <<JOpen, JStr("name", "execute_bash"), JClose>>,
     ToolCallJson("execute_bash", MapInsert(EmptyMap, "command", "ls")),
     ToolCallJson("fs_read", EmptyMap)}

\* responses without the outer marker: text, then objs, each after the prefix
InlineSources ==
    {[lead |-> l, objs |-> os, trail |-> t] :
        l \in {<<>>, <<Nl, Txt("Let me look."), Nl>>},
        os \in SeqsUpTo(InlineObjects, MaxInline),
        t \in {<<>>, <<Nl, Txt("I will read the files."), Nl>>}}

RECURSIVE RenderInlineObjects(_)
RenderInlineObjects(objs) ==
    IF objs = <<>> THEN <<>>
    ELSE <<TcPrefix>> \o Head(objs)
             \o (IF Len(objs) > 1 THEN <<Txt(" then ")>> ELSE <<>>)
             \o RenderInlineObjects(Tail(objs))

RenderInline(src) == src.lead \o RenderInlineObjects(src.objs) \o src.trail

\* the text of a rendered source that lies outside the 'Tool call: {...}' occurrences
RECURSIVE OutsideText(_)
OutsideText(objs) ==
    IF Len(objs) <= 1 THEN <<>> ELSE <<Txt(" then ")>> \o OutsideText(Tail(objs))

InlineInit ==
    /\ OrchStart(TRUE, <<>>)
    /\ provider = "scripted"
    /\ psrc \in InlineSources
    /\ pin = RenderInline(psrc)
    /\ pout = NotParsed
    /\ ToolsIdle

InlineSpec == InlineInit /\ [][ParseNext]_vars

---------------------------------------------------------------------------
(* The parser on generated responses that hold both forms *)

\* text a response may hold before its <function_calls> block
MixedLeads ==
    {<<>>,
     <<Nl, Txt("Let me look."), Nl>>,
     <<Txt("Earlier: "), TcPrefix, JOpen, JStr("name", "execute_bash"), JClose, Nl>>,
     <<TcPrefix>> \o ToolCallJson("fs_read", EmptyMap) \o <<Nl>>}

\* text a response may hold after its <function_calls> block: an occurrence of the inline
\* form, a second closed block
MixedTrails ==
    {<<>>,
     <<Nl, Txt("I will read the files.")>>,
     <<Nl, TcPrefix, JOpen, JStr("name", "fs_write"), JClose>>,
     <<Nl, FcOpen, Nl, InvOpen("fs_write"), Nl, InvClose, Nl, FcClose>>}

MixedBlocks ==
    {Invocation("execute_bash", <<Param("command", <<Txt("ls")>>)>>),
     Invocation("fs_read", <<>>)}

MixedSources ==
    {[lead |-> l, invs |-> is, trail |-> t] :
        l \in MixedLeads, is \in SeqsUpTo(MixedBlocks, MaxBlockInv), t \in MixedTrails}

MixedInit ==
    /\ OrchStart(TRUE, <<>>)
    /\ provider = "scripted"
    /\ psrc \in MixedSources
    /\ pin = RenderSource(psrc)
    /\ pout = NotParsed
    /\ ToolsIdle

MixedSpec == MixedInit /\ [][ParseNext]_vars

---------------------------------------------------------------------------
(* The parser on what the model client renders from replies with functionCall parts *)

\* functionCall parts a reply may hold
CallParts ==
    {CallPart("execute_bash", MapInsert(EmptyMap, "command", "ls")),
     CallPart("fs_read", MapInsert(MapInsert(EmptyMap, "path", "a.txt"), "mode", "Line")),
     CallPart("fs_read", EmptyMap),
     CallPart("fs_write", MapInsert(EmptyMap, "command", ""))}

\* replies of one candidate: a text part, functionCall parts, a text part
CallSources ==
    {[lead |-> l, invs |-> cs, trail |-> t] :
        l \in {<<>>, <<Txt("Let me look."), Nl>>},
        cs \in SeqsUpTo(CallParts, MaxBlockInv),
        t \in {<<>>, <<Nl, Txt("I will read the files.")>>}}

\* the reply of a source, and the text generate_content returns for it
CallReply(src) == Reply("parts", <<TextPart(src.lead)>> \o src.invs \o <<TextPart(src.trail)>>)

CallInit ==
    /\ OrchStart(TRUE, <<>>)
    /\ provider = "scripted"
    /\ psrc \in CallSources
    /\ pin = generate_content(CallReply(psrc)).text
    /\ pout = NotParsed
    /\ ToolsIdle

CallSpec == CallInit /\ [][ParseNext]_vars

---------------------------------------------------------------------------
(* The dispatcher on a file system *)

ToolInit ==
    /\ OrchStart(TRUE, <<>>)
    /\ provider = "scripted"
    /\ psrc = NoSource
    /\ pin = <<>>
    /\ pout = NotParsed
    /\ ToolsIdle

ToolNext == DispatchTool

ToolSpec == ToolInit /\ [][ToolNext]_vars

\* the model client and the tool handlers always return
FairSpec ==
    Init /\ [][Next]_vars
         /\ WF_vars(InitialReply \/ Dispatch1 \/ FollowUpReply \/ Dispatch2 \/ FinalReply)

---------------------------------------------------------------------------
(* Claims about the turn orchestrator *)

ReplyEvents == {"initial_reply", "followup_reply", "final_reply"}
Assistant(text) == [role |-> "assistant", text |-> text]
User(text) == [role |-> "user", text |-> text]
LastMessage == messages[Len(messages)]

\* the text recorded as the result of the last dispatch
ResultText(r) == IF r.ok THEN r.text ELSE <<Txt("Error executing tool call: ")>> \o r.text

\* the step that receives the response to the query following a level-2 dispatch
C1_FinalStep ==
    (pc = "final" /\ ev' = "final_reply" /\ response'.ok) =>
        /\ messages' = Append(messages, Assistant(response'.text))
        /\ out' = <<response'.text>>
        /\ nd' = nd /\ dlog' = dlog /\ n1' = n1 /\ n2' = n2
        /\ pc' \in {"for1", "for2", "readline", "exit"}
        /\ (pc' = "for2" => follow_tool_calls' = follow_tool_calls /\ ftc_i' = ftc_i + 1)
        /\ (pc' = "for1" => tool_calls' = tool_calls /\ tc_i' = tc_i + 1)

\* every dispatch is of an invocation parsed at level 1 or at level 2
C1_Levels ==
    /\ \A i \in DOMAIN dlog : dlog[i].lvl \in {1, 2}
    /\ Cardinality({i \in DOMAIN dlog : dlog[i].lvl = 1}) <= n1
    /\ Cardinality({i \in DOMAIN dlog : dlog[i].lvl = 2}) <= n2

\* C1: tool calls are dispatched at nesting levels 1 and 2 only, each one an invocation
\* found in the initial response (level 1) or in a follow-up response (level 2); the
\* response to the query that follows a level-2 dispatch is not parsed: the step that
\* receives it writes it out and appends it verbatim as one assistant entry, dispatches
\* nothing, and adds nothing to the tool calls still to be dispatched
C1_TwoLevels == []C1_Levels /\ [][C1_FinalStep]_vars

\* C1 witness: two level-1 invocations, the second one's follow-up held a third, which
\* was dispatched at level 2, and the final response received after it holds tool-call
\* markup and is the last history entry as it came
C1_Witness ==
    /\ ev = "final_reply" /\ response.ok
    /\ Len(dlog) = 3 /\ dlog[1].lvl = 1 /\ dlog[2].lvl = 1 /\ dlog[3].lvl = 2
    /\ extract_tool_calls(response.text).calls # <<>>
    /\ LastMessage = Assistant(response.text)

\* C2: a dispatch error, at level 1 or at level 2, does not abort the turn: its text is
\* written out, it is appended to the history as the tool result (a user entry), the
\* model is queried again, and the error does not reach the caller
C2_DispatchErrorFedBack ==
    (ev \in {"dispatch1", "dispatch2"} /\ ~last_tool.ok) =>
        /\ turn = "active"
        /\ pc \in {"followup", "final"}
        /\ out = <<ResultText(last_tool)>>
        /\ LastMessage = User(<<Txt("Tool result: ")>> \o ResultText(last_tool))
        /\ result = Running

\* C3: when the parser yields no invocation for the initial response of a turn, the
\* turn appends the response text as exactly one assistant entry and ends, with no tool
\* dispatched and no further query
C3_NoInvocationsEndsTurn ==
    (ev = "initial_reply" /\ response.ok /\ extract_tool_calls(response.text).calls = <<>>) =>
        /\ messages = Append(sent, Assistant(response.text))
        /\ turn = "done"
        /\ nd = 0
        /\ nq = 1

\* the state a failed query leaves
C4_Aborted ==
    (ev \in ReplyEvents /\ ~response.ok) =>
        /\ turn = "aborted"
        /\ messages = sent
        /\ tool_calls = <<>> /\ follow_tool_calls = <<>>
        /\ IF in_loop
           THEN pc = "readline" /\ out = <<<<Txt("Error: ")>> \o response.text>>
           ELSE pc = "exit" /\ result = [status |-> "error", error |-> response.text]

\* what may follow an aborted turn
C4_AfterAbort ==
    turn = "aborted" =>
        /\ (lines' = lines => nq' = nq /\ nd' = nd /\ messages' = messages)
        /\ (ev' = "chat" =>
                /\ Len(messages') = Len(messages) + 1
                /\ IsPrefix(messages, messages')
                /\ messages'[Len(messages')].role = "user"
                /\ pc' = "initial")

\* C4: a failed model query (initial, follow-up or final) aborts the turn: the failure
\* is reported (written out by the interactive loop, returned by run in one-shot mode),
\* the history is the one handed to the failed query, no tool is dispatched and no query
\* made until the next input, and the interactive loop reads the next input and
\* processes it against that history
C4_QueryFailureAbortsTurn == []C4_Aborted /\ [][C4_AfterAbort]_vars

\* C4 witness: a follow-up query failed after a tool call had been recorded, and the
\* next chat input is being processed with the entries of the aborted turn in the history
C4_Witness ==
    /\ lines = 2 /\ ev = "chat" /\ pc = "initial"
    /\ Len(messages) = 4
    /\ messages[2].role = "assistant" /\ messages[3].role = "user"

\* C5: a malformed upstream reply (no extractable candidate text, or finish reason
\* MALFORMED_FUNCTION_CALL) makes the query return an error and aborts the turn
C5_MalformedReplyIsFailure ==
    (ev \in ReplyEvents /\ upstream \in {"malformed_function_call", "no_candidate"}) =>
        /\ ~response.ok
        /\ turn = "aborted"
        /\ pc \in {"readline", "exit"}

\* a step appends to the history, or handles /clear
C6_Step == IsPrefix(messages, messages') \/ (ev' = "clear" /\ messages' = <<>>)

\* C6: every step leaves the history with the previous history as a prefix, except the
\* step that handles /clear, which leaves it empty
C6_AppendOnly == [][C6_Step]_vars

\* C6 witness: a second turn has extended the history of the first
C6_Witness == lines = 2 /\ turn = "done" /\ Len(messages) >= 6

\* the level-1 dispatches made so far are the first entries of tool_calls, in order
C7_Order ==
    pc \in {"for1", "followup", "for2", "final"} =>
        LET done == SelectSeq(dlog, LAMBDA d : d.lvl = 1)
        IN  /\ Len(done) = IF pc = "for1" THEN tc_i - 1 ELSE tc_i
            /\ \A i \in DOMAIN done : done[i].call = tool_calls[i]

\* a level-1 dispatch appends its two entries and goes on to the re-query
C7_DispatchStep ==
    ev' = "dispatch1" =>
        /\ messages' = messages \o
               <<Assistant(<<TcPrefix>> \o tool_calls[tc_i]),
                 User(<<Txt("Tool result: ")>> \o ResultText(last_tool'))>>
        /\ pc' = "followup"

\* the re-query is handed the history ending in the two entries
C7_RequeryStep ==
    (pc = "followup" /\ ev' = "followup_reply") =>
        /\ sent' = messages
        /\ nq' = nq + 1
        /\ Len(sent') >= 2
        /\ sent'[Len(sent') - 1] = Assistant(<<TcPrefix>> \o tool_calls[tc_i])
        /\ sent'[Len(sent')] = User(<<Txt("Tool result: ")>> \o ResultText(last_tool))

\* C7: level-1 invocations are dispatched in parser order; the step that dispatches one
\* appends the 'Tool call' assistant entry and then the 'Tool result' user entry, and
\* leaves the program waiting for the re-query, which is handed a history ending in
\* these two entries before the next invocation is dispatched
C7_Level1Entries == []C7_Order /\ [][C7_DispatchStep /\ C7_RequeryStep]_vars

\* C7 witness: the first of two level-1 invocations has been dispatched, recorded and
\* re-queried, and the second is about to be dispatched
C7_Witness ==
    /\ pc = "for1" /\ tc_i = 2 /\ ev = "followup_reply"
    /\ Len(sent) = 3 /\ sent[2].role = "assistant" /\ sent[3].role = "user"

\* the queries and dispatches of a turn against the invocations it received
C8_Bound == nq <= 1 + n1 + n2 /\ nd <= n1 + n2

\* C8: a turn whose initial response holds n1 invocations and whose follow-up responses
\* hold n2 invocations makes at most 1 + n1 + n2 queries and n1 + n2 dispatches, and a
\* turn that has started comes to its end
C8_TurnTerminates == []C8_Bound /\ (turn = "active" ~> turn # "active")

\* C8 witness: a turn ended after as many queries and dispatches as the bound allows
C8_Witness == turn = "done" /\ n1 = 2 /\ n2 = 1 /\ nq = 4 /\ nd = 3

\* C9: without the credential nothing happens: no input is handled, the history stays
\* empty, no query is made, no tool is dispatched, and run ends with a failure
C9_NoCredentialNoTurn ==
    ~env_key =>
        /\ pc \in {"run", "exit"}
        /\ (pc = "exit" => result.status = "failure")
        /\ ~gemini_client /\ ~in_loop
        /\ lines = 0 /\ messages = <<>> /\ nq = 0 /\ nd = 0 /\ turn = "none"

\* C9 witness: run has ended without the credential, the one-shot input not taken
C9_Witness == ~env_key /\ pc = "exit" /\ input # <<>>

---------------------------------------------------------------------------
(* Claims about the response parser *)

\* the parameters a sub-block declares, as a map from name to the characters of the value
RECURSIVE DeclaredMap(_)
DeclaredMap(params) ==
    IF params = <<>> THEN EmptyMap
    ELSE MapInsert(DeclaredMap(SubSeq(params, 1, Len(params) - 1)),
                   params[Len(params)].k, Chars(params[Len(params)].v))

\* C10: for a response holding a well-formed <function_calls> block of N invocation
\* sub-blocks the parser returns N invocations, the i-th one carrying the name of the
\* i-th sub-block and each parameter the sub-block declares, with its value as a string
C10_WellFormedBlock ==
    pout.done =>
        /\ pout.res.some
        /\ Len(pout.res.calls) = Len(psrc.invs)
        /\ \A i \in DOMAIN psrc.invs :
              /\ ValidJson(pout.res.calls[i])
              /\ CallName(pout.res.calls[i]) = psrc.invs[i].name
              /\ CallParameters(pout.res.calls[i]) = DeclaredMap(psrc.invs[i].params)
              /\ Len(pout.res.calls[i]) = 6 + Len(psrc.invs[i].params)

\* C10 witness: a parsed response with text around a block of two sub-blocks of
\* different tools, the first declaring two parameters and the second one
C10_Witness ==
    /\ pout.done
    /\ psrc.lead # <<>> /\ psrc.trail # <<>>
    /\ Len(psrc.invs) = 2
    /\ psrc.invs[1].name # psrc.invs[2].name
    /\ Len(psrc.invs[1].params) = 2 /\ Len(psrc.invs[2].params) = 1
    /\ Len(pout.res.calls) = 2

---------------------------------------------------------------------------
(* Claims about the inline form *)

\* C11: for a response without the outer marker that holds K >= 1 occurrences of
\* 'Tool call: ' each followed by one well-formed JSON object, objects with a nested
\* parameters object included, the parser returns these K objects in source order and,
\* as leading text, the text outside the occurrences, trimmed
C11_InlineObjectsReturned ==
    (pout.done /\ psrc.objs # <<>>) =>
        /\ pout.res.some
        /\ pout.res.calls = psrc.objs
        /\ pout.res.text = Trim(psrc.lead \o OutsideText(psrc.objs) \o psrc.trail)

---------------------------------------------------------------------------
(* Claims about responses without well-formed markup *)

\* the texts of the replies whose markup is not well formed
MalformedTexts ==
    {generate_content(r).text : r \in {UnclosedReply, BadInvokeReply, BadJsonReply}}

\* the text holds neither the outer marker nor the prefix of the inline form
NoMarkup(text) == FindTok(text, 1, FcOpen) = 0 /\ FindTok(text, 1, TcPrefix) = 0

\* C12: a response whose tool-call markup is malformed (outer marker never closed, closed
\* block whose invocation blocks are malformed, 'Tool call: ' followed by text that is
\* not JSON) is treated as holding no invocation: the parser finds no call in it and the
\* step that receives it writes out and appends the full response text
C12_MalformedDegradesToText ==
    (ev \in {"initial_reply", "followup_reply"} /\ response.ok
        /\ response.text \in MalformedTexts) =>
        /\ out = <<response.text>>
        /\ messages = Append(sent, Assistant(response.text))
        /\ extract_tool_calls(response.text).calls = <<>>

\* C13: a response with no markup of either form is returned as it is, with no
\* invocation: the step that receives it writes out and appends the response text
\* unchanged, and parsing that text again gives the same result
C13_NoMarkupUnchanged ==
    (ev \in {"initial_reply", "followup_reply"} /\ response.ok /\ NoMarkup(response.text)) =>
        /\ ~extract_tool_calls(response.text).some
        /\ out = <<response.text>>
        /\ messages = Append(sent, Assistant(response.text))
        /\ extract_tool_calls(LastMessage.text) = extract_tool_calls(response.text)

\* C13 witness: a response with blank lines around its text is the last history entry,
\* blank lines included
C13_Witness ==
    /\ ev = "initial_reply"
    /\ response = Ok(<<Nl, Txt("Done."), Nl>>)
    /\ LastMessage = Assistant(<<Nl, Txt("Done."), Nl>>)
    /\ turn = "done"

---------------------------------------------------------------------------
(* Claims about the dispatcher's routing *)

\* a tool call has been dispatched by the step
Dispatched == ncalls' = ncalls + 1

\* the mode and the command a call asks for, after the defaults
ModeOf(call) == as_str_or(call.parameters, "mode", <<Txt("Line")>>)
CommandOf(call) == as_str_or(call.parameters, "command", <<>>)
PathOf(call) == as_str_or(call.parameters, "path", <<>>)

\* C14: the known tools include the cloud-CLI passthrough tool: a call naming use_aws is
\* routed to that tool's handler and is not reported as an unknown tool
C14_CloudCliRouted ==
    (ncalls > 0 /\ tcall.name = "use_aws") =>
        /\ tout.ran = <<"use_aws">>
        /\ tout.res # Err(<<Txt("Unknown tool: use_aws")>>)

KnownTools == {"execute_bash", "fs_read", "fs_write"}
KnownModes == {<<Txt("Line")>>, <<Txt("Directory")>>, <<Txt("Search")>>}
KnownCommands == {<<Txt("create")>>, <<Txt("str_replace")>>, <<Txt("append")>>,
                  <<Txt("insert")>>}

\* the error the dispatcher is to report for a call, <<>> when the call is known
C15_Report(call) ==
    IF call.name \notin KnownTools THEN <<Txt("Unknown tool: " \o call.name)>>
    ELSE IF call.name = "fs_read" /\ ModeOf(call) \notin KnownModes
    THEN <<Txt("Invalid fs_read mode: ")>> \o ModeOf(call)
    ELSE IF call.name = "fs_write" /\ CommandOf(call) \notin KnownCommands
    THEN <<Txt("Invalid fs_write command: ")>> \o CommandOf(call)
    ELSE <<>>

C15_Step ==
    (Dispatched /\ C15_Report(tcall') # <<>>) =>
        /\ tout' = [res |-> Err(C15_Report(tcall')), ran |-> <<>>]
        /\ fsys' = fsys

\* C15: a call with an unknown tool name, an unknown fs_read mode or an unknown fs_write
\* command returns an error whose text names the offending tool, mode or command; no
\* tool handler runs and the file system is left as it was
C15_UnknownReportedNotRun == [][C15_Step]_vars

\* C15 witness: after a write has changed the file system, an fs_write call with the
\* command 'delete' is reported and nothing ran
C15_Witness ==
    /\ ncalls = 2
    /\ fsys # InitialFs
    /\ tcall.name = "fs_write"
    /\ CommandOf(tcall) = <<Txt("delete")>>
    /\ tout = [res |-> Err(<<Txt("Invalid fs_write command: "), Txt("delete")>>),
               ran |-> <<>>]

---------------------------------------------------------------------------
(* Claims about the filesystem-read tool *)

\* a parameter of a call that is absent or not a number
NotInteger(call, key) ==
    key \notin DOMAIN call.parameters \/ call.parameters[key].ty # "number"

\* the last call is a line-range read of a file
LineRead ==
    /\ ncalls > 0
    /\ tcall.name = "fs_read"
    /\ ModeOf(tcall) = <<Txt("Line")>>
    /\ is_file(fsys, PathOf(tcall))

\* the lines of the file the last call names
FileLines == lines_of(fsys[PathOf(tcall)].content)

\* C16: a line-range read whose start_line and end_line are absent or not integers
\* raises no parameter error: it is the read with the defaults 1 and -1, which on a file
\* with at least one line returns the whole file, first line to last line
C16_PermissiveLineRange ==
    (LineRead /\ NotInteger(tcall, "start_line") /\ NotInteger(tcall, "end_line")) =>
        /\ tout.ran = <<"read_file_lines">>
        /\ tout.res \in read_file_lines(fsys, PathOf(tcall), 1, -1)
        /\ FileLines # <<>> => tout.res = Ok(JoinLines(FileLines))

\* C16 witness: start_line and end_line given as the strings the structured-markup
\* parser produces, and the three lines of the file returned
C16_Witness ==
    /\ LineRead
    /\ "start_line" \in DOMAIN tcall.parameters
    /\ tcall.parameters["start_line"].ty = "string"
    /\ "end_line" \in DOMAIN tcall.parameters
    /\ tcall.parameters["end_line"].ty = "string"
    /\ tout.res = Ok(<<Txt("alpha"), Nl, Txt("beta"), Nl, Txt("gamma")>>)

\* the directory the recovery of the dispatcher is to list for a path: its parent, the
\* working directory for a bare name
ParentDir(path) ==
    IF ~parent(path).some \/ parent(path).path = <<>> THEN <<Dot>> ELSE parent(path).path

\* the last call is a line-range read or a search of a path that does not exist while
\* its parent directory does
MissingTarget ==
    /\ ncalls > 0
    /\ tcall.name = "fs_read"
    /\ ModeOf(tcall) \in {<<Txt("Line")>>, <<Txt("Search")>>}
    /\ PathOf(tcall) # <<>>
    /\ ~exists(fsys, PathOf(tcall))
    /\ is_dir(fsys, ParentDir(PathOf(tcall)))

\* C17: when a line-range read or a search fails because the target path does not
\* exist and its parent directory exists, the dispatcher returns the error text
\* followed by the listing of the parent directory (the working directory for a bare
\* file name)
C17_MissingTargetListsParent ==
    MissingTarget =>
        /\ tout.res.ok
        /\ \E i \in 1..Len(tout.res.text) :
              /\ SubSeq(tout.res.text, i, Len(tout.res.text))
                     = <<Txt("Available files in directory:"), Nl>>
                           \o list_directory(fsys, ParentDir(PathOf(tcall))).text
              /\ contains_not_found(SubSeq(tout.res.text, 1, i - 1))

\* a path std::fs::create_dir_all can create: it names something and no component of
\* it is a file
Creatable(fs, path) == path # <<>> /\ ~\E a \in Ancestors(path) : is_file(fs, a)

C18_Step ==
    (Dispatched /\ tcall'.name = "fs_read" /\ ModeOf(tcall') = <<Txt("Directory")>>) =>
        LET path == PathOf(tcall')
        IN  /\ (~exists(fsys, path) /\ Creatable(fsys, path)) =>
                   /\ is_dir(fsys', path)
                   /\ \A q \in DOMAIN fsys : q \in DOMAIN fsys' /\ fsys'[q] = fsys[q]
                   /\ tout'.res = Ok(<<Txt("Directory created: ")>> \o path
                                         \o <<Nl, Txt("The directory is empty.")>>)
            /\ exists(fsys, path) =>
                   /\ fsys' = fsys
                   /\ is_dir(fsys, path) =>
                          tout'.res.ok /\ tout'.res = list_directory(fsys, path)

StartLine == as_i64_or(tcall.parameters, "start_line", 1)
EndLine == as_i64_or(tcall.parameters, "end_line", -1)

\* C19: negative line indices count from the end of the file: a line-range read with
\* start_line = -1 and end_line = -1 on a file of N >= 1 lines succeeds and returns
\* exactly the last line
C19_NegativeIndexFromEnd ==
    (LineRead /\ Len(FileLines) >= 1 /\ StartLine = -1 /\ EndLine = -1) =>
        tout.res = Ok(FileLines[Len(FileLines)])

\* C20: line-range reads use 1-based inclusive bounds: with 1 <= start_line <= end_line
\* <= N the result is the lines start_line to end_line, and with 1 <= end_line <
\* start_line <= N the end is clamped to the start, so that the result is that of the
\* read with end_line = start_line, the line start_line
C20_InclusiveBoundsClamped ==
    (LineRead /\ 1 <= StartLine /\ StartLine <= Len(FileLines)
              /\ 1 <= EndLine /\ EndLine <= Len(FileLines)) =>
        /\ StartLine <= EndLine =>
               tout.res = Ok(JoinLines(SubSeq(FileLines, StartLine, EndLine)))
        /\ EndLine < StartLine =>
               /\ tout.res \in read_file_lines(fsys, PathOf(tcall), StartLine, StartLine)
               /\ tout.res = Ok(FileLines[StartLine])

---------------------------------------------------------------------------
(* Claims about the filesystem-write tool *)

\* the step dispatches an fs_write call with the command on a path that is a file
WriteStep(command) ==
    /\ Dispatched
    /\ tcall'.name = "fs_write"
    /\ CommandOf(tcall') = <<Txt(command)>>
    /\ is_file(fsys, PathOf(tcall'))

\* the content of the file the call of the step names, before and after the step
ContentBefore == fsys[PathOf(tcall')].content
ContentAfter == fsys'[PathOf(tcall')].content

\* every file and directory but the one the call of the step names is as it was
OthersKept ==
    /\ DOMAIN fsys' = DOMAIN fsys
    /\ \A q \in DOMAIN fsys : q # PathOf(tcall') => fsys'[q] = fsys[q]

C21_Step ==
    WriteStep("insert") =>
        LET line_number == as_usize(as_i64_or(tcall'.parameters, "insert_line", 0))
            content == as_str_or(tcall'.parameters, "new_str", <<>>)
        IN  /\ line_number = 0 =>
                   /\ tout'.res.ok
                   /\ lines_of(ContentAfter) = <<content>> \o lines_of(ContentBefore)
            /\ line_number > Len(lines_of(ContentBefore)) =>
                   /\ ~tout'.res.ok
                   /\ fsys' = fsys

\* C21: the line insert takes a 1-based line index where 0 means 'before the first
\* line': after an insert with index 0 the inserted content is the first line of the
\* file and the original lines follow; an index greater than the number of lines returns
\* an error and leaves the file unchanged
C21_InsertIndex == [][C21_Step]_vars

\* content with every occurrence of a non-empty old, taken from the left, given as new
RECURSIVE ReplacedAll(_, _, _)
ReplacedAll(content, old, new) ==
    IF ~Occurs(content, old) THEN content
    ELSE LET first == CHOOSE i \in 1..Len(content) :
                          /\ OccursAt(content, i, old)
                          /\ \A j \in 1..(i - 1) : ~OccursAt(content, j, old)
         IN  SubSeq(content, 1, first - 1) \o new
                 \o ReplacedAll(SubSeq(content, first + Len(old), Len(content)), old, new)

C22_Step ==
    WriteStep("str_replace") =>
        LET old_str == as_str_or(tcall'.parameters, "old_str", <<>>)
            new_str == as_str_or(tcall'.parameters, "new_str", <<>>)
        IN  /\ ~Occurs(ContentBefore, old_str) =>
                   /\ tout'.res = Err(<<Txt("String not found in file: ")>> \o old_str)
                   /\ fsys' = fsys
            /\ (old_str # <<>> /\ Occurs(ContentBefore, old_str)) =>
                   /\ tout'.res.ok
                   /\ ContentAfter = ReplacedAll(ContentBefore, old_str, new_str)
                   /\ OthersKept

\* C22: a string replace whose old string does not occur in the file returns an error
\* and leaves the file as it was; when the old string occurs, the content of the file
\* becomes the original with every occurrence of the old string given as the new string
C22_ReplaceOrError == [][C22_Step]_vars

\* C22 witness: the three line ends of notes.txt were replaced by 'delta'
C22_Witness ==
    /\ ncalls > 0
    /\ tcall.name = "fs_write"
    /\ CommandOf(tcall) = <<Txt("str_replace")>>
    /\ PathOf(tcall) = NotesTxt
    /\ as_str_or(tcall.parameters, "old_str", <<>>) = <<Nl>>
    /\ tout.res.ok
    /\ fsys[NotesTxt].content
           = <<Txt("alpha"), Txt("delta"), Txt("beta"), Txt("delta"), Txt("gamma"),
               Txt("delta")>>

\* text without its last line end, if it has one
WithoutLastNl(text) ==
    IF text # <<>> /\ text[Len(text)] = Nl THEN SubSeq(text, 1, Len(text) - 1) ELSE text

C23_Step ==
    (WriteStep("append") /\ ContentBefore # <<>> /\ ContentBefore[Len(ContentBefore)] # Nl) =>
        LET content == as_str_or(tcall'.parameters, "new_str", <<>>)
        IN  /\ tout'.res.ok
            /\ ContentAfter = ContentBefore \o <<Nl>> \o WithoutLastNl(content) \o <<Nl>>
            /\ OthersKept

\* C23: appending text T to a file whose non-empty content C does not end in a line end
\* gives C, one line end, T without its last line end, and one line end: one before the
\* appended text and one after it, not two when T ends in a line end itself
C23_AppendNewlines == [][C23_Step]_vars

\* C23 witness: 'delta' with a line end of its own was appended to src/main.rs, which
\* did not end in one
C23_Witness ==
    /\ ncalls = 1
    /\ tcall.name = "fs_write"
    /\ CommandOf(tcall) = <<Txt("append")>>
    /\ PathOf(tcall) = SrcMainRs
    /\ as_str_or(tcall.parameters, "new_str", <<>>) = <<Txt("delta"), Nl>>
    /\ fsys[SrcMainRs].content
           = <<Txt("fn main() {}"), Nl, Txt("// end"), Nl, Txt("delta"), Nl>>

\* a parameter of a call that is absent or not a string
NotString(call, key) ==
    key \notin DOMAIN call.parameters \/ call.parameters[key].ty # "string"

C28_Step == (WriteStep("str_replace") /\ NotString(tcall', "old_str")) => fsys' = fsys

\* C28: a string replace whose old_str is absent or not a string, and so is taken as the
\* empty string, does not modify the file it names
C28_NoOldStrNoChange == [][C28_Step]_vars

---------------------------------------------------------------------------
(* Claims about nested invocations, the two parse forms and the history *)

\* the nested invocations dispatched for the level-1 invocation in hand are the first
\* ones the parser returned, in its order
C24_Order ==
    pc \in {"for2", "final"} =>
        LET done == SelectSeq(dlog, LAMBDA d : d.lvl = 2)
            mine == IF pc = "for2" THEN ftc_i - 1 ELSE ftc_i
        IN  /\ Len(done) >= mine
            /\ \A i \in 1..mine :
                  done[Len(done) - mine + i].call = follow_tool_calls[i]

\* a level-2 dispatch appends its two entries and goes on to the query
C24_DispatchStep ==
    ev' = "dispatch2" =>
        /\ messages' = messages \o
               <<Assistant(<<TcPrefix>> \o follow_tool_calls[ftc_i]),
                 User(<<Txt("Tool result: ")>> \o ResultText(last_tool'))>>
        /\ pc' = "final"

\* the query after a level-2 dispatch is handed the two entries; its response is written
\* and appended as it is, and the next nested invocation, or else the next level-1
\* invocation, is taken up
C24_FinalStep ==
    (pc = "final" /\ ev' = "final_reply" /\ response'.ok) =>
        /\ sent' = messages /\ nq' = nq + 1
        /\ sent'[Len(sent') - 1] = Assistant(<<TcPrefix>> \o follow_tool_calls[ftc_i])
        /\ messages' = Append(messages, Assistant(response'.text))
        /\ out' = <<response'.text>>
        /\ IF ftc_i < Len(follow_tool_calls)
           THEN pc' = "for2" /\ ftc_i' = ftc_i + 1 /\ follow_tool_calls' = follow_tool_calls
           ELSE IF tc_i < Len(tool_calls)
           THEN pc' = "for1" /\ tc_i' = tc_i + 1 /\ tool_calls' = tool_calls
           ELSE pc' \in {"readline", "exit"}

\* C24: when the response to a level-1 re-query yields invocations, each nested
\* invocation is processed at level 2 in parser order: it is dispatched, its 'Tool call'
\* and 'Tool result' entries are appended, the model is queried once more and that
\* response is written and appended as one assistant entry without being parsed; then
\* the next nested invocation is taken up, and after the last one the remaining level-1
\* invocations
C24_NestedInvocations == []C24_Order /\ [][C24_DispatchStep /\ C24_FinalStep]_vars

\* the part of a text strictly before its first <function_calls> marker
BeforeFirstOpen(text) ==
    LET first == CHOOSE i \in DOMAIN text :
                     text[i] = FcOpen /\ \A j \in 1..(i - 1) : text[j] # FcOpen
    IN  SubSeq(text, 1, first - 1)

\* C25: the two parse forms are exclusive and the first match wins: for a response that
\* holds a closed <function_calls> block, only the invocations of that block are
\* returned, 'Tool call: {...}' occurrences elsewhere in the response are not, and the
\* leading text is the part of the response strictly before the first opening marker,
\* trimmed of surrounding whitespace
C25_FirstFormWins ==
    pout.done =>
        /\ pout.res.some
        /\ Len(pout.res.calls) = Len(psrc.invs)
        /\ \A i \in DOMAIN psrc.invs :
              /\ CallName(pout.res.calls[i]) = psrc.invs[i].name
              /\ CallParameters(pout.res.calls[i]) = DeclaredMap(psrc.invs[i].params)
        /\ pout.res.text = Trim(BeforeFirstOpen(pin))
        /\ pout.res.text = Trim(psrc.lead)

\* C25 witness: a parsed response with an inline occurrence before and after a block of
\* two sub-blocks: the two sub-blocks are the calls, the occurrence before the block is
\* in the leading text
C25_Witness ==
    /\ pout.done
    /\ \E i \in DOMAIN psrc.lead : psrc.lead[i] = TcPrefix
    /\ \E i \in DOMAIN psrc.trail : psrc.trail[i] = TcPrefix
    /\ Len(psrc.invs) = 2
    /\ Len(pout.res.calls) = 2
    /\ \E i \in DOMAIN pout.res.text : pout.res.text[i] = TcPrefix

\* C26: the rendering of a reply by the model client and the parser are inverse on
\* function calls: for a reply with one or more functionCall parts, parsing the rendered
\* text gives one invocation per functionCall part, in the order of the reply, each with
\* the name and the arguments of its part
C26_RenderParseRoundTrip ==
    (pout.done /\ Len(psrc.invs) >= 1) =>
        /\ pout.res.some
        /\ Len(pout.res.calls) = Len(psrc.invs)
        /\ \A i \in DOMAIN psrc.invs :
              /\ CallName(pout.res.calls[i]) = psrc.invs[i].name
              /\ CallParameters(pout.res.calls[i]) = psrc.invs[i].args

\* the roles of a history alternate, starting with the user
Alternates(msgs) ==
    /\ msgs # <<>> => msgs[1].role = "user"
    /\ \A i \in 1..(Len(msgs) - 1) : msgs[i].role # msgs[i + 1].role

\* C27: in every history handed to the model client the roles alternate: the first
\* entry is a user entry and no two consecutive entries have the same role, after any
\* sequence of turns
C27_RolesAlternate == Alternates(sent)

\* an input handled by handle_input itself: /help, /clear or a shell escape
LocalInput(line) ==
    Trim(line) \in {HelpLine, ClearLine} \/ (line # <<>> /\ Head(line) = Bang)

\* the one-shot input of a session with a client, when it is a local input, is handled
\* as one
C29_OneShot ==
    (pc = "run" /\ env_key /\ input # <<>> /\ LocalInput(input[1])) =>
        ev' \in {"help", "clear", "shell"}

\* the step that handles a local input makes no query, parses nothing, dispatches
\* nothing and is over; /help and the shell escape leave the history as it was
C29_Step ==
    ev' \in {"help", "clear", "shell"} =>
        /\ nq' = 0 /\ sent' = <<>> /\ response' = NoResponse
        /\ nd' = 0 /\ dlog' = <<>> /\ n1' = 0 /\ n2' = 0
        /\ emitted' = emitted
        /\ pc' \in {"readline", "exit"}
        /\ turn' = "none"
        /\ ev' \in {"help", "shell"} => messages' = messages

\* C29: the inputs /help, /clear and a shell escape never query the model client and
\* never go through the tool-call parser or the dispatcher; /help and the shell escape
\* leave the conversation history unchanged, whether the shell command succeeds or not
C29_LocalInputs == [][C29_OneShot /\ C29_Step]_vars

\* C29 witness: after a chat turn a shell escape failed, and the history of the turn is
\* still there while no query was made
C29_Witness ==
    /\ ev = "shell"
    /\ ~last_tool.ok
    /\ Len(messages) >= 2
    /\ nq = 0 /\ nd = 0
    /\ pc = "readline"

====
